---------------------------- MODULE Spec2Model ----------------------------
(***************************************************************************)
(* A model of the shuttle route planner's core: zone partitioning, capacity *)
(* constrained clustering, the cached OSRM routing client, and the cross-   *)
(* cluster reassignment pass (src/services.py, src/models.py,               *)
(* src/routing.py, src/utils.py).                                           *)
(*                                                                          *)
(* Coordinates are integers in units of 1e-4 degree.  On that grid the      *)
(* "%.6f" formatting of the cache keys is exact, and the great-circle       *)
(* distance is modelled by the flat-earth distance in metres                *)
(* (MetresPerUnit metres per grid unit, rounded down).                      *)
(* Python's None is modelled by None (-1) for numbers and by the empty      *)
(* tuple for tuples, lists holding an optional object and dicts.            *)
(***************************************************************************)
EXTENDS Integers, Sequences, FiniteSets, TLC

VARIABLES employees, safe_stops, use_zones, osm_roads, zone_service, zone_assignments,
          clusters, capacity, cache, disk, requests, succeeded, stored_by,
          reassigner, last

zoneVars == <<use_zones, osm_roads, zone_service, zone_assignments>>
clusterVars == <<clusters, capacity>>
routerVars == <<cache, disk, requests, succeeded, stored_by>>
vars == <<employees, safe_stops, zoneVars, clusterVars, routerVars, reassigner, last>>

-----------------------------------------------------------------------------
(* Bounds of the model *)

MaxZoneEmployees == 2
MaxCapEmployees == 4
MaxExcluded == 1
MaxCapacity == 2
MaxEnforceRuns == 2
MaxCalls == 2
MaxWalkers == 2

VEHICLE_CAPACITY == 17

-----------------------------------------------------------------------------
(* Python values *)

None == -1
NoPoint == <<>>

Abs(x) == IF x < 0 THEN -x ELSE x
Min(S) == CHOOSE x \in S : \A y \in S : x <= y
Max(S) == CHOOSE x \in S : \A y \in S : x >= y

RECURSIVE SortedSeq(_)
SortedSeq(S) == IF S = {} THEN <<>> ELSE <<Min(S)>> \o SortedSeq(S \ {Min(S)})

SeqsUpTo(S, n) == UNION {[1..k -> S] : k \in 0..n}

\* the indices in S as an ascending list: [i for i in range(...) if i in S]
IdxList(S) == SortedSeq(S)

RECURSIVE SumSeq(_)
SumSeq(s) == IF s = <<>> THEN 0 ELSE Head(s) + SumSeq(Tail(s))

Ceil(a, b) == (a + b - 1) \div b

-----------------------------------------------------------------------------
(* models.py: Employee *)

Employee(i, lat, lon) ==
    [id |-> i, lat |-> lat, lon |-> lon, cluster_id |-> None, zone_id |-> None,
     excluded |-> FALSE, pickup_point |-> NoPoint, walking_distance |-> None]

-----------------------------------------------------------------------------
(* services.py: ZoneService.  Barrier roads are modelled as north-south     *)
(* lines, each given by its longitude; a zone polygon is then the rectangle *)
(* between two neighbouring lines of the clipped network and the padded     *)
(* bounding box.                                                            *)

Padding == 100          \* 0.01 degree
MinZoneArea == 1000     \* 0.00001 square degree

box(minx, miny, maxx, maxy) == [minx |-> minx, miny |-> miny, maxx |-> maxx, maxy |-> maxy]

area(z) == (z.maxx - z.minx) * (z.maxy - z.miny)

\* Polygon.contains(Point): the interior only, a point on the ring is not contained
contains(z, lon, lat) == z.minx < lon /\ lon < z.maxx /\ z.miny < lat /\ lat < z.maxy

\* zone.boundary.distance(pt), squared: only compared, never added
boundary_distance(z, lon, lat) ==
    IF z.minx <= lon /\ lon <= z.maxx /\ z.miny <= lat /\ lat <= z.maxy
    THEN LET d == Min({lon - z.minx, z.maxx - lon, lat - z.miny, z.maxy - lat}) IN d * d
    ELSE LET dx == Max({z.minx - lon, 0, lon - z.maxx})
             dy == Max({z.miny - lat, 0, lat - z.maxy})
         IN dx * dx + dy * dy

\* polygonize(unary_union([clipped, bounds.boundary])): the faces, west to east
polygonize(roads, bounds) ==
    LET cuts == {x \in roads : bounds.minx < x /\ x < bounds.maxx}
        xs == SortedSeq(cuts \cup {bounds.minx, bounds.maxx})
    IN [i \in 1..(Len(xs) - 1) |-> box(xs[i], bounds.miny, xs[i + 1], bounds.maxy)]

\* ZoneService.load_barrier_roads
load_barrier_roads(zs) ==
    IF osm_roads = {} THEN zs ELSE [zs EXCEPT !.barrier_roads = <<osm_roads>>]

\* ZoneService.create_zones(employees): [raised, zs, ret]
ZoneService_create_zones(zs, emps) ==
    LET zs1 == IF zs.barrier_roads = <<>> THEN load_barrier_roads(zs) ELSE zs
    IN IF zs1.barrier_roads = <<>>
       THEN [raised |-> FALSE, zs |-> zs1, ret |-> <<>>]
       ELSE IF emps = <<>>
       THEN [raised |-> TRUE, zs |-> zs1, ret |-> <<>>]     \* min() of an empty list
       ELSE LET lats == {emps[i].lat : i \in DOMAIN emps}
                lons == {emps[i].lon : i \in DOMAIN emps}
                bounds == box(Min(lons) - Padding, Min(lats) - Padding,
                              Max(lons) + Padding, Max(lats) + Padding)
                faces == polygonize(zs1.barrier_roads[1], bounds)
                keep == IdxList({i \in DOMAIN faces : area(faces[i]) > MinZoneArea})
                zones == [k \in DOMAIN keep |-> faces[keep[k]]]
            IN [raised |-> FALSE, zs |-> [zs1 EXCEPT !.zones = zones], ret |-> zones]

\* NearestZone with max in the place of min
FarthestZone(zones, e) ==
    LET d(i) == boundary_distance(zones[i + 1], e.lon, e.lat)
    IN Min({i \in 0..(Len(zones) - 1) : \A j \in 0..(Len(zones) - 1) : d(i) >= d(j)})

\* the zone an employee gets: the first containing one, else the nearest (first minimum)
NearestZone(zones, e) ==
    LET d(i) == boundary_distance(zones[i + 1], e.lon, e.lat)
    IN Min({i \in 0..(Len(zones) - 1) :
              /\ \A j \in 0..(Len(zones) - 1) : d(i) <= d(j)
              /\ \A j \in 0..(i - 1) : d(j) > d(i)})

\* ZoneOf in which a later containing zone overwrites an earlier one (no break)
ZoneOfLastContaining(zones, e) ==
    LET inside == {i \in 0..(Len(zones) - 1) : contains(zones[i + 1], e.lon, e.lat)}
    IN IF inside # {} THEN Max(inside) ELSE NearestZone(zones, e)

ZoneOf(zones, e) ==
    LET inside == {i \in 0..(Len(zones) - 1) : contains(zones[i + 1], e.lon, e.lat)}
    IN IF inside # {} THEN Min(inside) ELSE NearestZone(zones, e)

\* ZoneService.assign_employees_to_zones(employees): [raised, zs, employees, ret]
ZoneService_assign_employees_to_zones(zs, emps) ==
    LET made == IF zs.zones = <<>> THEN ZoneService_create_zones(zs, emps)
                ELSE [raised |-> FALSE, zs |-> zs, ret |-> <<>>]
        zs2 == made.zs
        zones == zs2.zones
    IN IF made.raised
       THEN [raised |-> TRUE, zs |-> zs2, employees |-> emps, ret |-> <<>>]
       ELSE IF emps # <<>> /\ zones = <<>>
       THEN \* min() over an empty range of zones, for the first employee
            [raised |-> TRUE, zs |-> zs2, employees |-> emps, ret |-> <<>>]
       ELSE LET newEmps == [i \in DOMAIN emps |->
                               [emps[i] EXCEPT !.zone_id = ZoneOf(zones, emps[i])]]
                members(z) == IdxList({i \in DOMAIN newEmps : newEmps[i].zone_id = z})
                all == [z \in 0..(Len(zones) - 1) |-> members(z)]
                stats == [total_zones |-> Len(zones),
                          empty_zones |-> Cardinality({z \in DOMAIN all : all[z] = <<>>})]
                nonEmpty == {z \in DOMAIN all : all[z] # <<>>}
            IN [raised |-> FALSE, zs |-> [zs2 EXCEPT !.stats = stats],
                employees |-> newEmps, ret |-> [z \in nonEmpty |-> all[z]]]

-----------------------------------------------------------------------------
(* The zone step: actions *)

Returned(op, ret) == [op |-> op, raised |-> FALSE, ret |-> ret]
Raised(op) == [op |-> op, raised |-> TRUE, ret |-> <<>>]

LoadBarrierRoads ==
    /\ use_zones
    /\ last.op = "init"
    /\ zone_service' = load_barrier_roads(zone_service)
    /\ last' = Returned("ZoneService.load_barrier_roads", <<>>)
    /\ UNCHANGED <<safe_stops, employees, use_zones, osm_roads, zone_assignments, clusterVars, routerVars, reassigner>>

CreateZones ==
    /\ use_zones
    /\ last.op \in {"init", "ZoneService.load_barrier_roads"}
    /\ LET r == ZoneService_create_zones(zone_service, employees)
       IN /\ zone_service' = r.zs
          /\ last' = IF r.raised THEN Raised("ZoneService.create_zones")
                     ELSE Returned("ZoneService.create_zones", r.ret)
    /\ UNCHANGED <<safe_stops, employees, use_zones, osm_roads, zone_assignments, clusterVars, routerVars, reassigner>>

AssignEmployeesToZones ==
    /\ use_zones
    /\ last.op \in {"init", "ZoneService.load_barrier_roads", "ZoneService.create_zones"}
    /\ ~last.raised
    /\ LET r == ZoneService_assign_employees_to_zones(zone_service, employees)
       IN /\ zone_service' = r.zs
          /\ employees' = r.employees
          /\ last' = IF r.raised THEN Raised("ZoneService.assign_employees_to_zones")
                     ELSE Returned("ZoneService.assign_employees_to_zones", r.ret)
    /\ UNCHANGED <<safe_stops, use_zones, osm_roads, zone_assignments, clusterVars, routerVars, reassigner>>

\* ServicePlanner.create_zones
ServicePlanner_create_zones ==
    /\ last.op = "init"
    /\ IF ~use_zones
       THEN /\ last' = Returned("ServicePlanner.create_zones", <<>>)
            /\ UNCHANGED <<employees, zone_service, zone_assignments>>
       ELSE LET zs1 == load_barrier_roads(zone_service)
                made == ZoneService_create_zones(zs1, employees)
                r == ZoneService_assign_employees_to_zones(made.zs, employees)
            IN IF made.raised
               THEN /\ zone_service' = made.zs
                    /\ last' = Raised("ServicePlanner.create_zones")
                    /\ UNCHANGED <<employees, zone_assignments>>
               ELSE /\ zone_service' = r.zs
                    /\ employees' = r.employees
                    /\ IF r.raised
                       THEN /\ last' = Raised("ServicePlanner.create_zones")
                            /\ UNCHANGED zone_assignments
                       ELSE /\ last' = Returned("ServicePlanner.create_zones", r.ret)
                            /\ zone_assignments' = r.ret
    /\ UNCHANGED <<safe_stops, use_zones, osm_roads, clusterVars, routerVars, reassigner>>

-----------------------------------------------------------------------------
(* The parts of the planner a step does not use, as constructed *)

\* ZoneService.__init__, and ServicePlanner without zone partitioning
NoZones ==
    /\ use_zones = FALSE
    /\ osm_roads = {}
    /\ zone_service = [barrier_roads |-> <<>>, zones |-> <<>>, stats |-> <<>>]
    /\ zone_assignments = <<>>

\* OSRMRouter.__init__ with no cache file
NoRouter ==
    /\ cache = <<>>
    /\ disk = <<>>
    /\ requests = <<>>
    /\ succeeded = [get_route |-> {}, get_distance_matrix |-> {}, snap_to_road |-> {}]
    /\ stored_by = <<>>

\* ServicePlanner.__init__: no stop inventory loaded
NoStops == safe_stops = <<>>

\* reassign_employees_to_closer_routes not called
NoReassigner == reassigner = [pc |-> "idle"]

-----------------------------------------------------------------------------
(* The zone step: inputs *)

ZoneLats == {0, 10}
ZoneLons == {0, 3, 5, 60}
RoadLons == {1, 5, 30}

InitZones ==
    /\ \E pts \in SeqsUpTo(ZoneLats \X ZoneLons, MaxZoneEmployees) :
          employees = [i \in DOMAIN pts |-> Employee(i, pts[i][1], pts[i][2])]
    /\ use_zones \in BOOLEAN
    /\ osm_roads \in SUBSET RoadLons
    /\ zone_service = [barrier_roads |-> <<>>, zones |-> <<>>, stats |-> <<>>]
    /\ zone_assignments = <<>>
    /\ clusters = <<>>
    /\ capacity = VEHICLE_CAPACITY
    /\ NoRouter
    /\ NoReassigner
    /\ NoStops
    /\ last = [op |-> "init", raised |-> FALSE, ret |-> <<>>]

NextZones ==
    \/ LoadBarrierRoads
    \/ CreateZones
    \/ AssignEmployeesToZones
    \/ ServicePlanner_create_zones

SpecZones == InitZones /\ [][NextZones]_vars

-----------------------------------------------------------------------------
(* The zone step: properties *)

AssignReturned ==
    /\ ~last.raised
    /\ \/ last.op = "ZoneService.assign_employees_to_zones"
       \/ last.op = "ServicePlanner.create_zones" /\ use_zones

InNoZone(i) ==
    \A z \in DOMAIN zone_service.zones :
        ~contains(zone_service.zones[z], employees[i].lon, employees[i].lat)

Occurrences(i) ==
    {<<z, n>> \in (DOMAIN last.ret) \X (1..Len(employees)) :
        n \in DOMAIN last.ret[z] /\ last.ret[z][n] = i}

\* C3: when assign_employees_to_zones has returned, every employee has one zone_id,
\* the id of an existing zone, and stands exactly once in the returned mapping, in
\* the list of that zone; an employee that no zone polygon contains has the zone
\* whose boundary is nearest to it.
C3_ZoneAssignmentTotal ==
    AssignReturned =>
        \A i \in DOMAIN employees :
            LET zid == employees[i].zone_id
                zones == zone_service.zones
            IN /\ zid \in 0..(Len(zones) - 1)
               /\ Cardinality(Occurrences(i)) = 1
               /\ \A o \in Occurrences(i) : o[1] = zid
               /\ InNoZone(i) =>
                    \A z \in DOMAIN zones :
                        boundary_distance(zones[zid + 1], employees[i].lon, employees[i].lat)
                        <= boundary_distance(zones[z], employees[i].lon, employees[i].lat)

\* C3, its case: two employees were assigned among several zones, and one of them
\* lies in no polygon, nearer to one zone's boundary than to another's.
C3_Witness ==
    /\ AssignReturned
    /\ Len(employees) = 2
    /\ \E i \in DOMAIN employees :
          /\ InNoZone(i)
          /\ \E y, z \in DOMAIN zone_service.zones :
                boundary_distance(zone_service.zones[y], employees[i].lon, employees[i].lat)
                < boundary_distance(zone_service.zones[z], employees[i].lon, employees[i].lat)

\* C4: with no barrier roads, ServicePlanner.create_zones does not raise and leaves
\* an empty zone set and an empty assignment.
C4_NoBarrierRoadsDegrades ==
    (last.op = "ServicePlanner.create_zones" /\ use_zones /\ osm_roads = {}) =>
        /\ ~last.raised
        /\ zone_service.zones = <<>>
        /\ zone_assignments = <<>>


-----------------------------------------------------------------------------
(* assign_employees_to_zones on a given zone list.  The zone list is the    *)
(* method's input here: any list of rectangles, overlapping ones included.  *)

ZoneBoxes == {box(0, 0, 60, 40), box(30, 0, 90, 40), box(120, 0, 180, 40)}
AssignLons == {10, 45, 80, 100, 150}

\* the lists of one to three different zones
ZoneLists ==
    {zs \in UNION {[1..k -> ZoneBoxes] : k \in 1..Cardinality(ZoneBoxes)} :
        \A i, j \in DOMAIN zs : i # j => zs[i] # zs[j]}

InitAssign ==
    /\ \E lons \in SeqsUpTo(AssignLons, MaxZoneEmployees) :
          employees = [i \in DOMAIN lons |-> Employee(i, 20, lons[i])]
    /\ use_zones = TRUE
    /\ osm_roads = RoadLons
    /\ \E zs \in ZoneLists :
          /\ zone_service = [barrier_roads |-> <<osm_roads>>, zones |-> zs, stats |-> <<>>]
          /\ last = Returned("ZoneService.create_zones", zs)
    /\ zone_assignments = <<>>
    /\ clusters = <<>>
    /\ capacity = VEHICLE_CAPACITY
    /\ NoRouter
    /\ NoReassigner
    /\ NoStops

NextAssign == AssignEmployeesToZones

SpecAssign == InitAssign /\ [][NextAssign]_vars

Containing(i) ==
    {z \in 0..(Len(zone_service.zones) - 1) :
        contains(zone_service.zones[z + 1], employees[i].lon, employees[i].lat)}

\* C20: when assign_employees_to_zones has returned, an employee that some zone
\* contains has the lowest index among the zones containing it; the keys of the
\* returned mapping are exactly the original indices of the zones that got an
\* employee, and each key maps to that zone's employees in input order.
C20_FirstContainingZoneWins ==
    (last.op = "ZoneService.assign_employees_to_zones" /\ ~last.raised) =>
        /\ \A i \in DOMAIN employees :
              Containing(i) # {} =>
                  /\ employees[i].zone_id \in Containing(i)
                  /\ \A z \in Containing(i) : employees[i].zone_id <= z
        /\ DOMAIN last.ret = {employees[i].zone_id : i \in DOMAIN employees}
        /\ \A z \in DOMAIN last.ret :
              /\ last.ret[z] # <<>>
              /\ \A n \in DOMAIN last.ret[z] : employees[last.ret[z][n]].zone_id = z
              /\ \A n \in 1..(Len(last.ret[z]) - 1) : last.ret[z][n] < last.ret[z][n + 1]
              /\ Len(last.ret[z]) = Cardinality({i \in DOMAIN employees : employees[i].zone_id = z})

\* C20, its case: of three zones the first two overlap and hold an employee in
\* their common part, no employee got zone 0, and the mapping has the keys 1 and 2.
C20_Witness ==
    /\ last.op = "ZoneService.assign_employees_to_zones"
    /\ ~last.raised
    /\ Len(zone_service.zones) = 3
    /\ \E i \in DOMAIN employees : Containing(i) = {1, 2} /\ employees[i].zone_id = 1
    /\ DOMAIN last.ret = {1, 2}

-----------------------------------------------------------------------------
(* models.py: Cluster.  A center is an exact rational point                 *)
(* (lat / den, lon / den): a centroid is a sum of coordinates over a count. *)

Center(lat, lon, den) == [lat |-> lat, lon |-> lon, den |-> den]

Cluster(id, center) ==
    [id |-> id, center |-> center, original_center |-> <<>>, employees |-> <<>>,
     route |-> <<>>, zone_id |-> None, parent_cluster_id |-> None, stops |-> <<>>]

\* Cluster.get_active_employees
get_active_employees(c, emps) ==
    LET active(i) == ~emps[i].excluded IN SelectSeq(c.employees, active)

\* Cluster.get_employee_count
get_employee_count(c, emps, include_excluded) ==
    IF include_excluded THEN Len(c.employees) ELSE Len(get_active_employees(c, emps))

\* Employee.distance_to(*center), squared and cross-multiplied: compare
\* DistanceToCenter(e, c1) * c2.den^2 with DistanceToCenter(e, c2) * c1.den^2
DistanceToCenter(e, c) ==
    (e.lat * c.den - c.lat) * (e.lat * c.den - c.lat)
    + (e.lon * c.den - c.lon) * (e.lon * c.den - c.lon)

CloserToCenter(e, c1, c2) ==
    DistanceToCenter(e, c1) * c2.den * c2.den < DistanceToCenter(e, c2) * c1.den * c1.den

-----------------------------------------------------------------------------
(* utils.py: KMeansClusterer.fit, a wrapper of sklearn's KMeans (n_init=10, *)
(* fixed seed).  On the few points of this model the best of its ten runs   *)
(* is a labelling of least inertia; which of several such labellings it     *)
(* returns is left open.  labels_ is the nearest-center assignment of the   *)
(* final centers, so employees at one position share their label.           *)

InertiaScale == 3 * 4 * 5       \* a common multiple of the cluster sizes

Members(lab, j) == {i \in DOMAIN lab : lab[i] = j}

RECURSIVE SumOver(_, _, _)
SumOver(S, f, k) ==         \* the sum over i in S of f[i][k]
    IF S = {} THEN 0
    ELSE LET i == CHOOSE x \in S : TRUE IN f[i][k] + SumOver(S \ {i}, f, k)

RECURSIVE SumSquares(_, _)
SumSquares(S, f) ==
    IF S = {} THEN 0
    ELSE LET i == CHOOSE x \in S : TRUE
         IN f[i][1] * f[i][1] + f[i][2] * f[i][2] + SumSquares(S \ {i}, f)

\* inertia_ of one label: sum |p - centroid|^2 = sum |p|^2 - |sum p|^2 / n, scaled
LabelInertia(points, M) ==
    IF M = {} THEN 0
    ELSE LET sx == SumOver(M, points, 1)
             sy == SumOver(M, points, 2)
         IN InertiaScale * SumSquares(M, points)
            - ((InertiaScale * (sx * sx + sy * sy)) \div Cardinality(M))

Inertia(points, lab, k) ==
    LET RECURSIVE Go(_)
        Go(j) == IF j >= k THEN 0 ELSE LabelInertia(points, Members(lab, j)) + Go(j + 1)
    IN Go(0)

\* KMeansClusterer.fit(points).labels_
KMeans_labels(points, k) ==
    LET all == {lab \in [DOMAIN points -> 0..(k - 1)] :
                   \A i, j \in DOMAIN points : points[i] = points[j] => lab[i] = lab[j]}
        best == Min({Inertia(points, lab, k) : lab \in all})
    IN {lab \in all : Inertia(points, lab, k) = best}

\* KMeansClusterer.cluster_centers_[j]: the centroid; for a label without points
\* (fewer distinct points than clusters) the center stays on a data point
KMeans_center(points, lab, j) ==
    LET M == Members(lab, j)
    IN IF M = {} THEN Center(points[1][1], points[1][2], 1)
       ELSE Center(SumOver(M, points, 1), SumOver(M, points, 2), Cardinality(M))

-----------------------------------------------------------------------------
(* services.py: ClusteringService.enforce_capacity_constraints *)

\* NearestSub that always takes the first sub-cluster
FirstSub(subs, e) == 1

\* the sub-cluster an excluded employee goes to: min(subs, key=distance), first minimum
NearestSub(subs, e) ==
    CHOOSE j \in DOMAIN subs :
        /\ \A m \in DOMAIN subs : ~CloserToCenter(e, subs[m].center, subs[j].center)
        /\ \A m \in 1..(j - 1) : CloserToCenter(e, subs[j].center, subs[m].center)

\* lines 123-141: the split of one over-capacity cluster, given the labels k-means gave
SplitCluster(c, emps, next_id, n_splits, lab) ==
    LET active_emps == get_active_employees(c, emps)
        points == [i \in DOMAIN active_emps |->
                      <<emps[active_emps[i]].lat, emps[active_emps[i]].lon>>]
        empty == [j \in 1..n_splits |->
                    [Cluster(next_id + j - 1, KMeans_center(points, lab, j - 1))
                        EXCEPT !.zone_id = c.zone_id, !.parent_cluster_id = c.id]]
        excluded_emps == LET excl(i) == emps[i].excluded IN SelectSeq(c.employees, excl)
        labelled(j) == LET has(i) == \E n \in DOMAIN active_emps :
                                        active_emps[n] = i /\ lab[n] = j - 1
                       IN SelectSeq(active_emps, has)
        nearest(j) == LET goes(i) == NearestSub(empty, emps[i]) = j
                      IN SelectSeq(excluded_emps, goes)
        subs == [j \in 1..n_splits |->
                    [empty[j] EXCEPT !.employees = labelled(j) \o nearest(j)]]
        sub_of(i) == CHOOSE j \in 1..n_splits :
                        \E n \in DOMAIN subs[j].employees : subs[j].employees[n] = i
        moved == {c.employees[n] : n \in DOMAIN c.employees}
    IN [subs |-> subs,
        employees |-> [i \in DOMAIN emps |->
                          IF i \in moved
                          THEN [emps[i] EXCEPT !.cluster_id = subs[sub_of(i)].id]
                          ELSE emps[i]]]

RECURSIVE EnforceFrom(_, _, _, _, _, _)
EnforceFrom(cls, cap, i, next_id, new_clusters, emps) ==
    IF i > Len(cls)
    THEN {[raised |-> FALSE, clusters |-> new_clusters, employees |-> emps]}
    ELSE LET c == cls[i]
             active == get_employee_count(c, emps, FALSE)
         IN IF active <= cap
            THEN EnforceFrom(cls, cap, i + 1, next_id, Append(new_clusters, c), emps)
            ELSE LET n_splits == Ceil(active, cap)
                     active_emps == get_active_employees(c, emps)
                     points == [n \in DOMAIN active_emps |->
                                   <<emps[active_emps[n]].lat, emps[active_emps[n]].lon>>]
                 IN UNION {LET r == SplitCluster(c, emps, next_id, n_splits, lab)
                           IN EnforceFrom(cls, cap, i + 1, next_id + n_splits,
                                          new_clusters \o r.subs, r.employees)
                           : lab \in KMeans_labels(points, n_splits)}

\* the possible results of enforce_capacity_constraints(clusters, capacity)
enforce_capacity_constraints(cls, cap, emps) ==
    IF cls = <<>>
    THEN {[raised |-> TRUE, clusters |-> cls, employees |-> emps]}   \* max() of no ids
    ELSE EnforceFrom(cls, cap, 1, Max({cls[i].id : i \in DOMAIN cls}) + 1, <<>>, emps)

\* ClusteringService.validate_capacity
validate_capacity(cls, cap, emps) ==
    LET over == IdxList({i \in DOMAIN cls : get_employee_count(cls[i], emps, FALSE) > cap})
        violations == [n \in DOMAIN over |->
                          [cluster_id |-> cls[over[n]].id,
                           count |-> get_employee_count(cls[over[n]], emps, FALSE)]]
    IN <<violations = <<>>, violations>>

-----------------------------------------------------------------------------
(* Capacity enforcement: actions and inputs *)

EnforceCapacityConstraints ==
    /\ last.op \in {"clustered", "ClusteringService.enforce_capacity_constraints"}
    /\ ~last.raised
    /\ last.runs < MaxEnforceRuns
    /\ \E r \in enforce_capacity_constraints(clusters, capacity, employees) :
          /\ clusters' = r.clusters
          /\ employees' = r.employees
          /\ last' = [op |-> "ClusteringService.enforce_capacity_constraints",
                      raised |-> r.raised, ret |-> r.clusters, runs |-> last.runs + 1]
    /\ UNCHANGED <<safe_stops, zoneVars, capacity, routerVars, reassigner>>

CapPoints == {<<0, 0>>, <<0, 1>>, <<8, 8>>}

\* the clusters a clustering step hands over: employees 1..split in cluster 0 and
\* the others in cluster 1, each with the centroid of its members as center
Centroid(pts, M) == Center(SumOver(M, pts, 1), SumOver(M, pts, 2), Cardinality(M))

InitialClusters(pts, split) ==
    LET n == Len(pts)
        first == [Cluster(0, Centroid(pts, 1..split))
                    EXCEPT !.employees = [i \in 1..split |-> i]]
        second == [Cluster(1, Centroid(pts, (split + 1)..n))
                    EXCEPT !.employees = [i \in 1..(n - split) |-> split + i]]
    IN IF n = 0 THEN <<>>
       ELSE IF split = 0 THEN <<second>>
       ELSE IF split = n THEN <<first>>
       ELSE <<first, second>>

\* with zone partitioning, cluster 0 came from zone FirstZone and cluster 1 from
\* the next one: zones without employees have no cluster
FirstZone == 3

\* the employee list comes in the order of the employees' positions
InOrder(pts) ==
    \A i \in 1..(Len(pts) - 1) :
        \/ pts[i][1] < pts[i + 1][1]
        \/ pts[i][1] = pts[i + 1][1] /\ pts[i][2] <= pts[i + 1][2]

InitCapacity ==
    /\ \E pts \in {p \in SeqsUpTo(CapPoints, MaxCapEmployees) : InOrder(p)} :
       \E split \in 0..Len(pts) :
       \E excl \in {X \in SUBSET (DOMAIN pts) : Cardinality(X) <= MaxExcluded} :
       \E zoned \in BOOLEAN :
          /\ clusters = [k \in DOMAIN InitialClusters(pts, split) |->
                            [InitialClusters(pts, split)[k]
                                EXCEPT !.zone_id = IF zoned THEN FirstZone + InitialClusters(pts, split)[k].id ELSE None]]
          /\ employees = [i \in DOMAIN pts |->
                            [Employee(i, pts[i][1], pts[i][2])
                                EXCEPT !.excluded = (i \in excl),
                                       !.cluster_id = IF i <= split THEN 0 ELSE 1,
                                       !.zone_id = IF ~zoned THEN None
                                                   ELSE IF i <= split THEN FirstZone
                                                   ELSE FirstZone + 1]]
    /\ capacity \in 1..MaxCapacity
    /\ NoZones
    /\ NoRouter
    /\ NoReassigner
    /\ NoStops
    /\ last = [op |-> "clustered", raised |-> FALSE, ret |-> <<>>, runs |-> 0]

NextCapacity == EnforceCapacityConstraints

SpecCapacity == InitCapacity /\ [][NextCapacity]_vars

-----------------------------------------------------------------------------
(* Capacity enforcement: properties *)

WithinCapacity(cls) ==
    \A i \in DOMAIN cls : get_employee_count(cls[i], employees, FALSE) <= capacity

\* C1: when enforce_capacity_constraints has returned, every cluster of the returned
\* list has at most `capacity` active members.
C1_ReturnedWithinCapacity ==
    (last.op = "ClusteringService.enforce_capacity_constraints" /\ ~last.raised)
        => WithinCapacity(clusters)

\* C2: a call of enforce_capacity_constraints on a list whose clusters all are within
\* capacity returns, and returns that list: the same clusters in the same order, and
\* no employee changed.
C2_NoOpOnValidList ==
    [][(last'.op = "ClusteringService.enforce_capacity_constraints"
            /\ last'.runs = last.runs + 1 /\ WithinCapacity(clusters))
        => (~last'.raised /\ clusters' = clusters /\ employees' = employees)]_vars

\* C18: a call of enforce_capacity_constraints that returns replaces every cluster
\* over capacity by exactly ceil(active / capacity) sub-clusters that name it as
\* parent and have its zone id; every member of the parent is in exactly one of
\* them, they hold no one else, and an excluded member is in a sub-cluster whose
\* centroid is nearest to it.
C18_SplitPartitions ==
    [][(/\ last'.op = "ClusteringService.enforce_capacity_constraints"
        /\ last'.runs = last.runs + 1
        /\ ~last'.raised)
        => \A i \in DOMAIN clusters :
             LET c == clusters[i]
                 active == get_employee_count(c, employees, FALSE)
                 subs == {j \in DOMAIN clusters' : clusters'[j].parent_cluster_id = c.id}
                 places(e) == {<<j, n>> \in subs \X (1..Len(c.employees)) :
                                  n \in DOMAIN clusters'[j].employees
                                  /\ clusters'[j].employees[n] = e}
             IN active > capacity =>
                  /\ Cardinality(subs) * capacity >= active
                  /\ (Cardinality(subs) - 1) * capacity < active
                  /\ \A j \in subs : /\ clusters'[j].zone_id = c.zone_id
                                     /\ \A k \in DOMAIN clusters : clusters[k].id # clusters'[j].id
                                     /\ Len(clusters'[j].employees) <= Len(c.employees)
                  /\ \A n \in DOMAIN c.employees : Cardinality(places(c.employees[n])) = 1
                  /\ \A j \in subs : \A n \in DOMAIN clusters'[j].employees :
                        /\ \E k \in DOMAIN c.employees : c.employees[k] = clusters'[j].employees[n]
                        /\ employees'[clusters'[j].employees[n]].cluster_id = clusters'[j].id
                        /\ employees[clusters'[j].employees[n]].excluded =>
                              \A k \in subs :
                                 ~CloserToCenter(employees[clusters'[j].employees[n]],
                                                 clusters'[k].center, clusters'[j].center)]_vars

\* C18, its case: a zoned cluster of three active members and an excluded one was
\* split for capacity 2 into two sub-clusters, and the excluded member went to
\* the second of them.
C18_Witness ==
    /\ last.op = "ClusteringService.enforce_capacity_constraints"
    /\ ~last.raised
    /\ capacity = 2
    /\ Len(clusters) = 2
    /\ \A j \in DOMAIN clusters : /\ clusters[j].parent_cluster_id = 0
                                  /\ clusters[j].zone_id = FirstZone
    /\ Len(employees) = 4
    /\ \E n \in DOMAIN clusters[2].employees : employees[clusters[2].employees[n]].excluded
    /\ get_employee_count(clusters[1], employees, FALSE) = 2

\* C15: with zero employees no step of the core raises: capacity enforcement on
\* the empty cluster list returns, and returns an empty list.
C15_ZeroEmployeesNeverFails ==
    (employees = <<>> /\ last.op = "ClusteringService.enforce_capacity_constraints")
        => (~last.raised /\ last.ret = <<>>)

-----------------------------------------------------------------------------
(* utils.py: haversine.  Distances are in metres; one coordinate unit is    *)
(* taken as MetresPerUnit metres in both directions and the great circle as *)
(* a straight line, rounded down to a whole unit.                           *)

MetresPerUnit == 10

ISqrt(n) == CHOOSE r \in 0..n : r * r <= n /\ n < (r + 1) * (r + 1)

haversine(lat1, lon1, lat2, lon2) ==
    LET dphi == Abs(lat2 - lat1)
        dlambda == Abs(lon2 - lon1)
    IN MetresPerUnit * (IF dphi = 0 THEN dlambda
                        ELSE IF dlambda = 0 THEN dphi
                        ELSE ISqrt(dphi * dphi + dlambda * dlambda))

-----------------------------------------------------------------------------
(* models.py: Route.  distance_km is held in metres (thousandths of a km)   *)
(* and duration_min in milliseconds.                                        *)

MsPerMetre == 90        \* (distance_km / 40) * 60 minutes: 40 km/h

Route(stops) ==
    [stops |-> stops, bus_stops |-> <<>>, coordinates |-> <<>>,
     distance_km |-> 0, duration_min |-> 0, optimized |-> FALSE]

\* Route.calculate_stats_from_stops with the last segment left out
calculate_stats_short(route) ==
    LET stops == route.stops
        segments == [i \in 1..(Len(stops) - 2) |->
                        haversine(stops[i][1], stops[i][2], stops[i + 1][1], stops[i + 1][2])]
    IN [route EXCEPT !.distance_km = SumSeq(segments),
                     !.duration_min = MsPerMetre * SumSeq(segments)]

\* Route.calculate_stats_from_stops
calculate_stats_from_stops(route) ==
    LET stops == route.stops
        segments == [i \in 1..(Len(stops) - 1) |->
                        haversine(stops[i][1], stops[i][2], stops[i + 1][1], stops[i + 1][2])]
        total == SumSeq(segments)
    IN IF Len(stops) < 2
       THEN [route EXCEPT !.distance_km = 0, !.duration_min = 0]
       ELSE [route EXCEPT !.distance_km = total, !.duration_min = MsPerMetre * total]

-----------------------------------------------------------------------------
(* routing.py: APICache.  A key is the string that is hashed, kept in its   *)
(* parts; md5 is taken as injective.                                        *)

\* f"{lat:.6f},{lon:.6f}": a coordinate as its count of millionths of a degree
Format6(x) == x * 100

coords_str(points) == [i \in DOMAIN points |-> <<Format6(points[i][1]), Format6(points[i][2])>>]

\* APICache._generate_key(points, departure_time=None)
generate_key(points) ==
    [prefix |-> <<>>, coords |-> coords_str(points), time |-> "no-time"]

\* APICache._generate_matrix_key(origins, destinations, profile): the two lists
\* are joined with the separator that also joins the points of each list
generate_matrix_key(origins, destinations, profile) ==
    [prefix |-> <<"matrix", profile>>,
     coords |-> coords_str(origins) \o coords_str(destinations), time |-> ""]

\* APICache.set / set_matrix: self.cache[key] = data
CacheSet(c, key, data) == [k \in DOMAIN c \cup {key} |-> IF k = key THEN data ELSE c[k]]

-----------------------------------------------------------------------------
(* The routing service (OSRM) as the client sees it.  An answer is a        *)
(* function of the request; a request can also fail.                        *)

Outcomes == {"ok", "error", "timeout", "unusable"}
Profiles == {"driving", "foot"}

Detour(profile) == IF profile = "driving" THEN 2 ELSE 1
Pace(profile) == IF profile = "driving" THEN 60 ELSE 720      \* ms per metre

RECURSIVE Chain(_)
Chain(points) ==
    IF Len(points) < 2 THEN 0
    ELSE haversine(points[1][1], points[1][2], points[2][1], points[2][2]) + Chain(Tail(points))

\* /route/v1/{profile}/{coords}, as parsed by get_route
OsrmRoute(points, profile) ==
    [coordinates |-> points,
     distance_km |-> Detour(profile) * Chain(points),
     duration_min |-> Pace(profile) * Detour(profile) * Chain(points)]

\* /table/v1/{profile}/{coords}: data['distances']
OsrmTable(origins, destinations, profile) ==
    [i \in DOMAIN origins |->
        [j \in DOMAIN destinations |->
            Detour(profile) * haversine(origins[i][1], origins[i][2],
                                        destinations[j][1], destinations[j][2])]]

\* /nearest/v1/{profile}/{lon},{lat}: the first waypoint
OsrmNearest(lat, lon, profile) ==
    [lat |-> lat, lon |-> lon + 1, distance |-> MetresPerUnit, name |-> profile]

\* whether the service answers this request with a usable response
Answers(outcome, points) == outcome = "ok" /\ Len(points) >= 2

-----------------------------------------------------------------------------
(* routing.py: OSRMRouter.  Each operation gives [raised, ret, cache, disk, *)
(* request]: ret holds the returned value, or nothing for None; request     *)
(* holds the network request made, if one was made.                         *)

Request(endpoint, profile, points) ==
    <<[endpoint |-> endpoint, profile |-> profile, points |-> points]>>

\* OSRMRouter.get_route(points, profile)
OSRMRouter_get_route(c, d, points, profile, outcome) ==
    LET key == generate_key(points)
        result == OsrmRoute(points, profile)
    IN IF key \in DOMAIN c
       THEN [raised |-> FALSE, ret |-> <<c[key]>>, cache |-> c, disk |-> d, request |-> <<>>]
       ELSE IF Answers(outcome, points)
       THEN [raised |-> FALSE, ret |-> <<result>>, cache |-> CacheSet(c, key, result),
             disk |-> CacheSet(c, key, result), request |-> Request("route", profile, points)]
       ELSE [raised |-> TRUE, ret |-> <<>>, cache |-> c, disk |-> d,
             request |-> Request("route", profile, points)]

\* OSRMRouter.get_distance_matrix(origins, destinations, profile), `result` being
\* data['distances'] of the service's answer
get_distance_matrix(c, d, origins, destinations, profile, outcome, result) ==
    LET key == generate_matrix_key(origins, destinations, profile)
        request == Request("table", profile, origins \o destinations)
    IN IF key \in DOMAIN c /\ c[key] # <<>>
       THEN [raised |-> FALSE, ret |-> <<c[key]>>, cache |-> c, disk |-> d, request |-> <<>>]
       ELSE IF outcome = "ok"
       THEN [raised |-> FALSE, ret |-> <<result>>, cache |-> CacheSet(c, key, result),
             disk |-> CacheSet(c, key, result), request |-> request]
       ELSE [raised |-> FALSE, ret |-> <<>>, cache |-> c, disk |-> d, request |-> request]

\* OSRMRouter.get_distance_matrix(origins, destinations, profile)
OSRMRouter_get_distance_matrix(c, d, origins, destinations, profile, outcome) ==
    get_distance_matrix(c, d, origins, destinations, profile, outcome,
                        OsrmTable(origins, destinations, profile))

\* OSRMRouter.snap_to_road(lat, lon, profile)
OSRMRouter_snap_to_road(c, d, lat, lon, profile, outcome) ==
    [raised |-> FALSE,
     ret |-> IF outcome = "ok" THEN <<OsrmNearest(lat, lon, profile)>> ELSE <<>>,
     cache |-> c, disk |-> d, request |-> Request("nearest", profile, <<<<lat, lon>>>>)]

\* Cluster.get_employee_locations
get_employee_locations(cl, emps, include_excluded) ==
    LET members == IF include_excluded THEN cl.employees ELSE get_active_employees(cl, emps)
    IN [i \in DOMAIN members |-> <<emps[members[i]].lat, emps[members[i]].lon>>]

\* RoutingService.optimize_cluster_route(cluster, use_stops): [raised, ret, route call]
RoutingService_optimize_cluster_route(c, d, cl, emps, use_stops, outcome) ==
    LET stops == IF use_stops /\ Len(cl.stops) > 0 THEN cl.stops
                 ELSE get_employee_locations(cl, emps, FALSE)
        got == OSRMRouter_get_route(c, d, stops, "driving", outcome)
        route == IF got.raised THEN calculate_stats_from_stops(Route(stops))
                 ELSE [Route(stops) EXCEPT !.coordinates = got.ret[1].coordinates,
                                           !.distance_km = got.ret[1].distance_km,
                                           !.duration_min = got.ret[1].duration_min]
    IN IF stops = <<>>
       THEN [raised |-> FALSE, ret |-> <<>>, stops |-> stops, called |-> FALSE, got |-> got]
       ELSE [raised |-> FALSE, ret |-> <<route>>, stops |-> stops, called |-> TRUE, got |-> got]

-----------------------------------------------------------------------------
(* The routing client: actions and inputs *)

Args(points, destinations, profile) ==
    [points |-> points, destinations |-> destinations, profile |-> profile]

\* the calls that made a request and got its answer, per operation
Succeeded(done, op, args, r) ==
    LET call == [args |-> args, ret |-> r.ret]
    IN IF r.request = <<>> \/ r.raised \/ r.ret = <<>> THEN done
       ELSE IF op = "OSRMRouter.get_route"
       THEN [done EXCEPT !.get_route = @ \cup {call}]
       ELSE IF op = "OSRMRouter.get_distance_matrix"
       THEN [done EXCEPT !.get_distance_matrix = @ \cup {call}]
       ELSE [done EXCEPT !.snap_to_road = @ \cup {call}]

\* what a client call leaves behind besides its result
Called(op, args, r, outcome) ==
    /\ cache' = r.cache
    /\ disk' = r.disk
    /\ requests' = requests \o r.request
    /\ succeeded' = Succeeded(succeeded, op, args, r)
    /\ last' = [op |-> op, raised |-> r.raised, ret |-> r.ret, args |-> args,
                requested |-> r.request # <<>>, calls |-> last.calls + 1]

RoutePointLists == {<<<<0, 0>>, <<3, 4>>>>, <<<<0, 0>>, <<3, 4>>, <<3, 0>>>>}
MatrixInputs == {<<<<<<0, 0>>, <<3, 4>>>>, <<<<3, 0>>>>>>, <<<<<<0, 0>>>>, <<<<3, 4>>, <<3, 0>>>>>>}
SnapPoints == {<<0, 0>>}

GetRoute ==
    /\ last.calls < MaxCalls
    /\ \E points \in RoutePointLists, profile \in Profiles, outcome \in Outcomes :
          LET r == OSRMRouter_get_route(cache, disk, points, profile, outcome)
              key == generate_key(points)
          IN /\ Called("OSRMRouter.get_route", Args(points, <<>>, profile), r, outcome)
             /\ stored_by' = IF r.cache # cache
                             THEN CacheSet(stored_by, key, Args(points, <<>>, profile))
                             ELSE stored_by
    /\ UNCHANGED <<safe_stops, employees, zoneVars, clusterVars, reassigner>>

GetDistanceMatrix ==
    /\ last.calls < MaxCalls
    /\ \E od \in MatrixInputs, profile \in Profiles, outcome \in Outcomes :
          LET r == OSRMRouter_get_distance_matrix(cache, disk, od[1], od[2], profile, outcome)
              key == generate_matrix_key(od[1], od[2], profile)
          IN /\ Called("OSRMRouter.get_distance_matrix", Args(od[1], od[2], profile), r, outcome)
             /\ stored_by' = IF r.cache # cache
                             THEN CacheSet(stored_by, key, Args(od[1], od[2], profile))
                             ELSE stored_by
    /\ UNCHANGED <<safe_stops, employees, zoneVars, clusterVars, reassigner>>

SnapToRoad ==
    /\ last.calls < MaxCalls
    /\ \E pt \in SnapPoints, profile \in Profiles, outcome \in Outcomes :
          LET r == OSRMRouter_snap_to_road(cache, disk, pt[1], pt[2], profile, outcome)
          IN Called("OSRMRouter.snap_to_road", Args(<<pt>>, <<>>, profile), r, outcome)
    /\ UNCHANGED <<safe_stops, employees, zoneVars, clusterVars, stored_by, reassigner>>

OptimizeClusterRoute ==
    /\ last.calls < MaxCalls
    /\ \E use_stops \in BOOLEAN, outcome \in Outcomes :
          LET r == RoutingService_optimize_cluster_route(cache, disk, clusters[1], employees,
                                                         use_stops, outcome)
              args == Args(r.stops, <<>>, "driving")
              got == IF r.called THEN r.got
                     ELSE [r.got EXCEPT !.cache = cache, !.disk = disk, !.request = <<>>]
          IN /\ cache' = got.cache
             /\ disk' = got.disk
             /\ requests' = requests \o got.request
             /\ succeeded' = Succeeded(succeeded, "OSRMRouter.get_route", args, got)
             /\ stored_by' = IF got.cache # cache
                             THEN CacheSet(stored_by, generate_key(r.stops), args)
                             ELSE stored_by
             /\ clusters' = IF r.ret = <<>> THEN clusters
                            ELSE [clusters EXCEPT ![1].route = r.ret]
             /\ last' = [op |-> "RoutingService.optimize_cluster_route", raised |-> r.raised,
                         ret |-> r.ret, args |-> args, requested |-> got.request # <<>>,
                         calls |-> last.calls + 1]
    /\ UNCHANGED <<safe_stops, employees, zoneVars, capacity, reassigner>>

\* OSRMRouter.__init__ in a later process: APICache._load_cache reads the file
NewRouter ==
    /\ last.op # "OSRMRouter.__init__"
    /\ cache' = disk
    /\ last' = [last EXCEPT !.op = "OSRMRouter.__init__", !.raised = FALSE, !.ret = <<>>,
                             !.requested = FALSE]
    /\ UNCHANGED <<safe_stops, employees, zoneVars, clusterVars, disk, requests, succeeded, stored_by,
                   reassigner>>

InitRouter ==
    /\ \E stops \in {<<>>} \cup RoutePointLists, members \in {<<>>, <<1>>} :
          /\ employees = [i \in DOMAIN members |-> [Employee(i, 3, 4) EXCEPT !.cluster_id = 0]]
          /\ clusters = <<[Cluster(0, Center(3, 4, 1)) EXCEPT !.employees = members,
                                                               !.stops = stops]>>
    /\ capacity = VEHICLE_CAPACITY
    /\ NoZones
    /\ NoRouter
    /\ NoReassigner
    /\ NoStops
    /\ last = [op |-> "OSRMRouter.__init__", raised |-> FALSE, ret |-> <<>>,
               args |-> Args(<<>>, <<>>, ""), requested |-> FALSE, calls |-> 0]

NextRouter == GetRoute \/ GetDistanceMatrix \/ SnapToRoad \/ OptimizeClusterRoute \/ NewRouter

SpecRouter == InitRouter /\ [][NextRouter]_vars

-----------------------------------------------------------------------------
(* The routing client: properties *)

\* the earlier calls of the operation of this step's call that got an answer
SucceededCalls(op) ==
    IF op = "OSRMRouter.get_route" THEN succeeded.get_route
    ELSE IF op = "OSRMRouter.get_distance_matrix" THEN succeeded.get_distance_matrix
    ELSE IF op = "OSRMRouter.snap_to_road" THEN succeeded.snap_to_road
    ELSE {}

\* C5: once a route, matrix or snap call has been answered by the service, a later
\* call of the same operation with the same coordinates and profile returns the
\* same result and makes no network request.
C5_RepeatServedFromCache ==
    [][\A c \in SucceededCalls(last'.op) :
          (last'.calls = last.calls + 1 /\ last'.args = c.args)
              => (requests' = requests /\ ~last'.raised /\ last'.ret = c.ret)]_vars

\* C6: a result that get_route(points, profile) returns from the cache was stored by
\* a route call with the same profile.
C6_RouteKeyHasProfile ==
    (last.op = "OSRMRouter.get_route" /\ last.calls > 0 /\ ~last.raised /\ ~last.requested)
        => stored_by[generate_key(last.args.points)].profile = last.args.profile

\* C7: when optimize_cluster_route asks the service for a route that is not cached
\* and the request fails, it does not raise; it returns and assigns a Route that is
\* not optimized, with the haversine chain of its stops as distance and that
\* distance at constant speed as duration, and the cache gains no entry, in
\* memory or on disk.
C7_FailedBuildFallsBack ==
    [][(/\ last'.op = "RoutingService.optimize_cluster_route"
        /\ last'.calls = last.calls + 1
        /\ generate_key(last'.args.points) \notin DOMAIN cache
        /\ Len(requests') = Len(requests) + 1
        /\ succeeded' = succeeded)
        => (/\ ~last'.raised
            /\ Len(last'.ret) = 1
            /\ last'.ret[1].stops = last'.args.points
            /\ last'.ret[1].optimized = FALSE
            /\ last'.ret[1].distance_km = Chain(last'.args.points)
            /\ last'.ret[1].duration_min = MsPerMetre * Chain(last'.args.points)
            /\ clusters'[1].route = last'.ret
            /\ cache' = cache
            /\ disk' = disk)]_vars

\* C7, its case: the request for a route of three stops failed, and the Route
\* returned has the length of the straight-line chain.
C7_Witness ==
    /\ last.op = "RoutingService.optimize_cluster_route"
    /\ last.requested
    /\ generate_key(last.args.points) \notin DOMAIN cache
    /\ Len(last.args.points) = 3
    /\ Len(last.ret) = 1
    /\ last.ret[1].distance_km > 0
    /\ last.ret[1].coordinates = <<>>

\* C14: optimize_cluster_route on a cluster with fewer than two stops returns no
\* Route (None), assigns no route to the cluster, makes no request to the routing
\* service and does not raise.
C14_FewerThanTwoStopsNoRoute ==
    (last.op = "RoutingService.optimize_cluster_route" /\ Len(last.args.points) < 2)
        => (/\ ~last.raised
            /\ last.ret = <<>>
            /\ ~last.requested
            /\ clusters[1].route = <<>>)

-----------------------------------------------------------------------------
(* services.py: the clustering step, ServicePlanner.create_clusters on the  *)
(* flat path (no zone assignments): cluster_employees, snap_centers_to_roads *)
(* and the capacity check.                                                  *)

\* ClusteringService.cluster_employees(employees, num_clusters): the possible
\* results; KMeans.fit raises on fewer samples than clusters
cluster_employees(emps, num_clusters) ==
    IF Len(emps) < num_clusters \/ emps = <<>>
    THEN {[raised |-> TRUE, clusters |-> <<>>, employees |-> emps]}
    ELSE LET points == [i \in DOMAIN emps |-> <<emps[i].lat, emps[i].lon>>]
         IN {[raised |-> FALSE,
              clusters |-> [j \in 1..num_clusters |->
                              [Cluster(j - 1, KMeans_center(points, lab, j - 1))
                                  EXCEPT !.employees = IdxList(Members(lab, j - 1))]],
              employees |-> [i \in DOMAIN emps |-> [emps[i] EXCEPT !.cluster_id = lab[i]]]]
             : lab \in KMeans_labels(points, num_clusters)}

\* the waypoint /nearest answers for a center (lat/den, lon/den): OsrmNearest there
SnappedCenter(center) == Center(center.lat, center.lon + center.den, center.den)

\* snap_centers_to_roads that gives up at the first cluster it cannot snap
snap_centers_until_failure(cls, outcomes) ==
    LET ok(i) == \A j \in 1..i : outcomes[j] = "ok"
    IN [clusters |-> [i \in DOMAIN cls |->
                        IF ok(i)
                        THEN [cls[i] EXCEPT !.original_center = <<cls[i].center>>,
                                            !.center = SnappedCenter(cls[i].center)]
                        ELSE cls[i]],
        ret |-> Cardinality({i \in DOMAIN cls : ok(i)}),
        requests |-> [i \in DOMAIN cls |-> Request("nearest", "driving", <<cls[i].center>>)[1]]]

\* ClusteringService.snap_centers_to_roads(clusters), outcomes[i] being the outcome
\* of the request for cluster i: [clusters, ret, requests]
snap_centers_to_roads(cls, outcomes) ==
    LET ok(i) == outcomes[i] = "ok"
    IN [clusters |-> [i \in DOMAIN cls |->
                        IF ok(i)
                        THEN [cls[i] EXCEPT !.original_center = <<cls[i].center>>,
                                            !.center = SnappedCenter(cls[i].center)]
                        ELSE cls[i]],
        ret |-> Cardinality({i \in DOMAIN cls : ok(i)}),
        requests |-> [i \in DOMAIN cls |-> Request("nearest", "driving", <<cls[i].center>>)[1]]]

\* ServicePlanner.create_clusters(num_clusters), zone_assignments being empty: the
\* possible results.  `violations` is what validate_capacity reported (line 946).
create_clusters(emps, num_clusters, cap, outcomes) ==
    UNION {IF ce.raised
           THEN {[raised |-> TRUE, clusters |-> <<>>, employees |-> emps, requests |-> <<>>,
                  snapped |-> 0, violations |-> <<>>]}
           ELSE LET sn == snap_centers_to_roads(ce.clusters, outcomes)
                    checked == validate_capacity(sn.clusters, cap, ce.employees)
                IN IF checked[1]
                   THEN {[raised |-> FALSE, clusters |-> sn.clusters,
                          employees |-> ce.employees, requests |-> sn.requests,
                          snapped |-> sn.ret, violations |-> checked[2]]}
                   ELSE {[raised |-> en.raised, clusters |-> en.clusters,
                          employees |-> en.employees, requests |-> sn.requests,
                          snapped |-> sn.ret, violations |-> checked[2]]
                         : en \in enforce_capacity_constraints(sn.clusters, cap, ce.employees)}
           : ce \in cluster_employees(emps, num_clusters)}

-----------------------------------------------------------------------------
(* The clustering step: actions and inputs *)

NumClusters == {1, 2}

ClusterStep(op, raised, outcomes, snapped, violations) ==
    [op |-> op, raised |-> raised, ret |-> <<>>, outcomes |-> outcomes,
     snapped |-> snapped, violations |-> violations]

ClusterEmployees ==
    /\ last.op = "init"
    /\ \E num_clusters \in NumClusters :
       \E r \in cluster_employees(employees, num_clusters) :
          /\ clusters' = r.clusters
          /\ employees' = r.employees
          /\ last' = ClusterStep("ClusteringService.cluster_employees", r.raised, <<>>, 0, <<>>)
    /\ UNCHANGED <<safe_stops, zoneVars, capacity, routerVars, reassigner>>

SnapCentersToRoads ==
    /\ last.op = "ClusteringService.cluster_employees"
    /\ ~last.raised
    /\ \E outcomes \in [DOMAIN clusters -> Outcomes] :
          LET r == snap_centers_to_roads(clusters, outcomes)
          IN /\ clusters' = r.clusters
             /\ requests' = requests \o r.requests
             /\ last' = ClusterStep("ClusteringService.snap_centers_to_roads", FALSE,
                                    outcomes, r.ret, <<>>)
    /\ UNCHANGED <<safe_stops, employees, zoneVars, capacity, cache, disk, succeeded, stored_by, reassigner>>

ServicePlanner_create_clusters ==
    /\ last.op = "init"
    /\ \E num_clusters \in NumClusters :
       \E outcomes \in [1..num_clusters -> Outcomes] :
       \E r \in create_clusters(employees, num_clusters, capacity, outcomes) :
          /\ clusters' = r.clusters
          /\ employees' = r.employees
          /\ requests' = requests \o r.requests
          /\ last' = ClusterStep("ServicePlanner.create_clusters", r.raised, outcomes,
                                 r.snapped, r.violations)
    /\ UNCHANGED <<safe_stops, zoneVars, capacity, cache, disk, succeeded, stored_by, reassigner>>

InitClusters ==
    /\ \E pts \in {p \in SeqsUpTo(CapPoints, MaxCapEmployees) : InOrder(p)} :
          employees = [i \in DOMAIN pts |-> Employee(i, pts[i][1], pts[i][2])]
    /\ clusters = <<>>
    /\ capacity \in 1..MaxCapacity
    /\ NoZones
    /\ NoRouter
    /\ NoReassigner
    /\ NoStops
    /\ last = ClusterStep("init", FALSE, <<>>, 0, <<>>)

NextClusters == ClusterEmployees \/ SnapCentersToRoads \/ ServicePlanner_create_clusters

SpecClusters == InitClusters /\ [][NextClusters]_vars

-----------------------------------------------------------------------------
(* The clustering step: properties *)

\* C16: when create_clusters has returned, every cluster of the resulting list with
\* more active members than the capacity stands, with its id and its count, in the
\* list of violations that validate_capacity reported.
C16_OverCapacityReported ==
    (last.op = "ServicePlanner.create_clusters" /\ ~last.raised) =>
        \A i \in DOMAIN clusters :
            get_employee_count(clusters[i], employees, FALSE) > capacity =>
                \E n \in DOMAIN last.violations :
                    last.violations[n] =
                        [cluster_id |-> clusters[i].id,
                         count |-> get_employee_count(clusters[i], employees, FALSE)]

\* C17: snap_centers_to_roads does not raise and handles every cluster on its own:
\* a cluster whose request got no match is left as it was, a cluster whose request
\* got a match has the matched point as center and the center it had before as
\* original_center, and the returned count is the number of clusters that got a match.
C17_SnapPerCluster ==
    [][last'.op = "ClusteringService.snap_centers_to_roads" =>
          (/\ ~last'.raised
           /\ Len(clusters') = Len(clusters)
           /\ Len(requests') = Len(requests) + Len(clusters)
           /\ \A i \in DOMAIN clusters :
                 IF last'.outcomes[i] = "ok"
                 THEN /\ clusters'[i].center = SnappedCenter(clusters[i].center)
                      /\ clusters'[i].original_center = <<clusters[i].center>>
                      /\ clusters'[i].employees = clusters[i].employees
                 ELSE clusters'[i] = clusters[i]
           /\ last'.snapped = Cardinality({i \in DOMAIN clusters : last'.outcomes[i] = "ok"}))]_vars

\* C17, its case: the first cluster could not be snapped, the second one was, and
\* the count returned is one.
C17_Witness ==
    /\ last.op = "ClusteringService.snap_centers_to_roads"
    /\ Len(clusters) = 2
    /\ last.outcomes[1] = "timeout"
    /\ last.outcomes[2] = "ok"
    /\ clusters[1].original_center = <<>>
    /\ clusters[2].original_center # <<>>
    /\ last.snapped = 1

-----------------------------------------------------------------------------
(* models.py: the shapely geometry of Route.find_all_stops_along_route and  *)
(* Route.match_employees_to_route.  A point is (lat, lon), as the code      *)
(* builds Point(s[0], s[1]) and LineString(coordinates).  The polylines of  *)
(* this model have segments parallel to an axis and of positive length;     *)
(* on them projection, distance and arc length are exact in integers.       *)
(* Distances to a line are squared.                                         *)

KmPerDegree == 111          \* buffer_meters / 111_000
UnitsPerMilliDegree == 10   \* the grid: 1e-4 degree
Fine == 10                  \* delta = 1e-5 degree is a tenth of a grid unit
SideTolerance == 1          \* 1e-10 square degree, in squares of delta

SegLen(a, b) == Abs(b[1] - a[1]) + Abs(b[2] - a[2])

Clamp(x, a, b) == IF x < Min({a, b}) THEN Min({a, b})
                  ELSE IF x > Max({a, b}) THEN Max({a, b}) ELSE x

\* the point of segment a-b nearest to p
Closest(a, b, p) == <<Clamp(p[1], a[1], b[1]), Clamp(p[2], a[2], b[2])>>

Dist2(p, q) == (p[1] - q[1]) * (p[1] - q[1]) + (p[2] - q[2]) * (p[2] - q[2])

SegDistance(line, k, p) == Dist2(p, Closest(line[k], line[k + 1], p))

\* line.distance(point), squared
line_distance(line, p) == Min({SegDistance(line, k, p) : k \in 1..(Len(line) - 1)})

RECURSIVE LengthBefore(_, _)
LengthBefore(line, k) ==
    IF k <= 1 THEN 0 ELSE LengthBefore(line, k - 1) + SegLen(line[k - 1], line[k])

\* line.project(point): arc length of the nearest point, on the first nearest segment
line_project(line, p) ==
    LET k == Min({j \in 1..(Len(line) - 1) : SegDistance(line, j, p) = line_distance(line, p)})
    IN LengthBefore(line, k) + SegLen(line[k], Closest(line[k], line[k + 1], p))

\* line.interpolate(d) is InterpolateFrom(line, 1, d), 0 <= d <= line.length
RECURSIVE InterpolateFrom(_, _, _)
InterpolateFrom(line, k, d) ==
    LET a == line[k]
        b == line[k + 1]
        n == SegLen(a, b)
    IN IF d <= n \/ k = Len(line) - 1
       THEN IF n = 0 THEN a
            ELSE <<a[1] + ((b[1] - a[1]) * Min({d, n})) \div n,
                   a[2] + ((b[2] - a[2]) * Min({d, n})) \div n>>
       ELSE InterpolateFrom(line, k + 1, d - n)

\* lines 257-270 and 314-325: the cross product of the local direction of travel
\* and the vector to the stop, in squares of delta
cross_product(line, s) ==
    LET fine == [k \in DOMAIN line |-> <<Fine * line[k][1], Fine * line[k][2]>>]
        pos == Fine * line_project(line, s)
        p1 == InterpolateFrom(fine, 1, Max({0, pos - 1}))
        p2 == InterpolateFrom(fine, 1, Min({LengthBefore(fine, Len(fine)), pos + 1}))
        vx == p2[1] - p1[1]
        vy == p2[2] - p1[2]
        wx == Fine * s[1] - p1[1]
        wy == Fine * s[2] - p1[2]
    IN vx * wy - vy * wx

\* the side test that drops every stop off the line, whatever its side
off_line(line, s) == Abs(cross_product(line, s)) > SideTolerance

\* lines 273 and 327: the stop is on the wrong side of the route
wrong_side(line, s) == cross_product(line, s) < -SideTolerance

\* line.distance(s_point) < buffer_deg, buffer_deg = buffer_meters / 111_000
in_buffer(line, s, buffer_meters) ==
    line_distance(line, s) * KmPerDegree * KmPerDegree
        < buffer_meters * buffer_meters * UnitsPerMilliDegree * UnitsPerMilliDegree

\* find_all_stops_along_route that leaves the stops in the order of the inventory
find_all_stops_unsorted(route, all_stops, buffer_meters, same_side_only) ==
    LET line == route.coordinates
        found(i) == /\ in_buffer(line, all_stops[i], buffer_meters)
                    /\ ~(same_side_only /\ wrong_side(line, all_stops[i]))
        order == IdxList({i \in DOMAIN all_stops : found(i)})
        bus_stops == [k \in DOMAIN order |-> all_stops[order[k]]]
    IN IF Len(line) < 2
       THEN [route |-> route, ret |-> <<>>]
       ELSE [route |-> [route EXCEPT !.bus_stops = bus_stops], ret |-> bus_stops]

\* Route.find_all_stops_along_route(all_stops, buffer_meters, same_side_only):
\* [route, ret].  The sort is stable: stops at one position keep their order.
find_all_stops_along_route(route, all_stops, buffer_meters, same_side_only) ==
    LET line == route.coordinates
        n == Len(all_stops) + 1
        found(i) == /\ in_buffer(line, all_stops[i], buffer_meters)
                    /\ ~(same_side_only /\ wrong_side(line, all_stops[i]))
        keys == {line_project(line, all_stops[i]) * n + i : i \in {j \in DOMAIN all_stops : found(j)}}
        order == SortedSeq(keys)
        bus_stops == [k \in DOMAIN order |-> all_stops[order[k] % n]]
    IN IF Len(line) < 2
       THEN [route |-> route, ret |-> <<>>]
       ELSE [route |-> [route EXCEPT !.bus_stops = bus_stops], ret |-> bus_stops]

-----------------------------------------------------------------------------
(* models.py: Route.match_employees_to_route.  The walking network of the   *)
(* table service is a `world`: the points in world.cut have no access to   *)
(* it (their distances are null) and the stops in world.far are reached by  *)
(* a detour of three times the straight line.                               *)

OsrmWalkTable(world, origins, destinations, profile) ==
    LET direct == OsrmTable(origins, destinations, profile)
    IN [i \in DOMAIN origins |->
          [j \in DOMAIN destinations |->
              IF origins[i] \in world.cut \/ destinations[j] \in world.cut THEN None
              ELSE (IF destinations[j] \in world.far THEN 3 ELSE 1) * direct[i][j]]]

\* candidate_stops without the side filter
candidate_stops_unfiltered(route, stops, buffer_meters) ==
    LET near(st) == in_buffer(route.coordinates, st, buffer_meters)
    IN route.stops \o SelectSeq(stops, near)

\* lines 299-330: valid_route_stops, the route's stops and the safe stops within
\* the buffer, without those on the wrong side
candidate_stops(route, stops, buffer_meters) ==
    LET near(st) == in_buffer(route.coordinates, st, buffer_meters)
        right(st) == ~wrong_side(route.coordinates, st)
    IN SelectSeq(route.stops \o SelectSeq(stops, near), right)

\* lines 349-355: the index of the first least distance of a row, None entries
\* skipped; -1 when the row has no distance
best_stop_idx(dists) ==
    LET present == {j \in DOMAIN dists : dists[j] # None}
    IN IF present = {} THEN -1
       ELSE Min({j \in present : \A k \in present : dists[j] <= dists[k]}) - 1

\* nearest_points(emp_point, MultiPoint(stops))[1]: the places of the stops at the
\* least planar distance (which of several such shapely returns is left open)
nearest_points(e, stops) ==
    {j \in DOMAIN stops :
        \A k \in DOMAIN stops : Dist2(<<e.lat, e.lon>>, stops[j]) <= Dist2(<<e.lat, e.lon>>, stops[k])}

\* Route.match_employees_to_route(employees, safe_stops, buffer_meters) with the
\* cache file d, the outcome of the table request and the world that answers
\* it: the possible results [employees, ret, disk, request, matrix, candidates]
match_employees_to_route(route, emps, members, stops, buffer_meters, d, outcome, world) ==
    LET valid == candidate_stops(route, stops, buffer_meters)
        isActive(n) == ~emps[n].excluded
        active == SelectSeq(members, isActive)
        emp_locs == [i \in DOMAIN active |-> <<emps[active[i]].lat, emps[active[i]].lon>>]
        got == get_distance_matrix(d, d, emp_locs, valid, "foot", outcome,
                                   OsrmWalkTable(world, emp_locs, valid, "foot"))
        place(n) == CHOOSE i \in DOMAIN active : active[i] = n
        none == [employees |-> emps, ret |-> 0, disk |-> d, request |-> <<>>,
                 matrix |-> <<>>, candidates |-> <<>>]
    IN IF Len(route.coordinates) < 2 THEN {none}
       ELSE IF valid = <<>> THEN {none}
       ELSE IF active = <<>> THEN {[none EXCEPT !.candidates = valid]}
       ELSE IF got.ret # <<>> /\ got.ret[1] # <<>>
       THEN LET matrix == got.ret[1]
                idx(i) == best_stop_idx(matrix[i])
                matched == {active[i] : i \in {k \in DOMAIN active : idx(k) # -1}}
            IN {[employees |-> [n \in DOMAIN emps |->
                                  IF n \in matched
                                  THEN [emps[n] EXCEPT
                                           !.pickup_point = valid[idx(place(n)) + 1],
                                           !.walking_distance =
                                               matrix[place(n)][idx(place(n)) + 1]]
                                  ELSE emps[n]],
                 ret |-> Cardinality(matched), disk |-> got.disk, request |-> got.request,
                 matrix |-> got.ret, candidates |-> valid]}
       ELSE {[employees |-> [n \in DOMAIN emps |->
                               IF \E i \in DOMAIN active : active[i] = n
                               THEN [emps[n] EXCEPT !.pickup_point = valid[near[place(n)]],
                                                    !.walking_distance = None]
                               ELSE emps[n]],
              ret |-> Len(active), disk |-> got.disk, request |-> got.request,
              matrix |-> <<>>, candidates |-> valid]
             : near \in {f \in [DOMAIN active -> DOMAIN valid] :
                           \A i \in DOMAIN active : f[i] \in nearest_points(emps[active[i]], valid)}}

-----------------------------------------------------------------------------
(* Stop discovery and employee matching on one route: the steps of          *)
(* ServicePlanner.optimize_routes after the route is built.  The street     *)
(* runs east along latitude 5; the far side of the street (north, on the    *)
(* left of the direction of travel) is the wrong side.                      *)

ROUTE_STOP_BUFFER_METERS == 15
BUS_STOP_DISCOVERY_BUFFER_METERS == 30
DefaultBufferMeters == 150

MaxMatchEmployees == 2

StopNorth == <<6, 3>>        \* 11 m off the street, wrong side
StopSouth == <<4, 3>>        \* its mirror image
StopOnLine == <<5, 5>>
StopAhead == <<4, 8>>

Inventories ==
    {<<>>,
     <<StopNorth>>,
     <<StopNorth, StopSouth>>,
     <<StopAhead, StopSouth, StopOnLine>>,
     <<<<3, 6>>, <<2, 4>>, StopSouth>>,        \* 22 m and 33 m off the street
     <<StopAhead, StopNorth, StopOnLine, StopSouth>>}

\* a route as RoutingService.optimize_cluster_route leaves it: the polyline of the
\* service, or none when only the fallback statistics were taken
BuiltRoutes ==
    {[Route(<<<<5, 0>>, <<5, 10>>>>) EXCEPT !.coordinates = <<<<5, 0>>, <<5, 5>>, <<5, 10>>>>],
     [Route(<<<<6, 0>>, <<11, 6>>>>) EXCEPT !.coordinates = <<<<5, 0>>, <<5, 6>>, <<11, 6>>>>],
     Route(<<<<5, 0>>, <<5, 10>>>>)}

Worlds == {[cut |-> c, far |-> f] : c \in {{}, {StopSouth}, {<<3, 3>>}}, f \in {{}, {StopSouth}}}

RouteStep(op, ret, buffer_meters, same_side_only, r) ==
    [op |-> op, raised |-> FALSE, ret |-> ret,
     args |-> [buffer_meters |-> buffer_meters, same_side_only |-> same_side_only],
     candidates |-> r.candidates, matrix |-> r.matrix, requested |-> r.request # <<>>]

NoMatch == [candidates |-> <<>>, matrix |-> <<>>, request |-> <<>>]

\* c.route.find_all_stops_along_route(self.safe_stops, buffer_meters, same_side_only)
FindAllStopsAlongRoute ==
    /\ last.op # "Route.match_employees_to_route"
    /\ \E buffer_meters \in {BUS_STOP_DISCOVERY_BUFFER_METERS, DefaultBufferMeters}, same_side_only \in BOOLEAN :
          LET r == find_all_stops_along_route(clusters[1].route[1], safe_stops,
                                              buffer_meters, same_side_only)
          IN /\ clusters' = [clusters EXCEPT ![1].route = <<r.route>>]
             /\ last' = RouteStep("Route.find_all_stops_along_route", <<r.ret>>,
                                  buffer_meters, same_side_only, NoMatch)
    /\ UNCHANGED <<safe_stops, employees, zoneVars, capacity, routerVars, reassigner>>

\* c.route.match_employees_to_route(c.employees, self.safe_stops, buffer_meters);
\* the router it makes loads the cache file and saves it
MatchEmployeesToRoute ==
    /\ Len(requests) < MaxCalls
    /\ \E outcome \in Outcomes :
       \E world \in IF outcome = "ok" THEN Worlds ELSE {[cut |-> {}, far |-> {}]} :
          \E r \in match_employees_to_route(clusters[1].route[1], employees,
                                            clusters[1].employees, safe_stops,
                                            ROUTE_STOP_BUFFER_METERS, disk, outcome, world) :
             /\ employees' = r.employees
             /\ disk' = r.disk
             /\ requests' = requests \o r.request
             /\ last' = RouteStep("Route.match_employees_to_route", <<r.ret>>,
                                  ROUTE_STOP_BUFFER_METERS, TRUE, r)
    /\ UNCHANGED <<safe_stops, zoneVars, clusterVars, cache, succeeded, stored_by, reassigner>>

InitRoute ==
    /\ \E homes \in SeqsUpTo({<<3, 3>>, <<7, 3>>}, MaxMatchEmployees), first_excluded \in BOOLEAN,
          route \in BuiltRoutes :
          /\ first_excluded => homes # <<>>
          /\ employees = [i \in DOMAIN homes |->
                            [Employee(i, homes[i][1], homes[i][2])
                                EXCEPT !.cluster_id = 0,
                                       !.excluded = (i = 1 /\ first_excluded)]]
          /\ clusters = <<[Cluster(0, Center(5, 5, 1))
                              EXCEPT !.employees = [i \in DOMAIN homes |-> i],
                                     !.route = <<route>>]>>
    /\ safe_stops \in Inventories
    /\ capacity = VEHICLE_CAPACITY
    /\ NoZones
    /\ NoRouter
    /\ NoReassigner
    /\ last = RouteStep("Route.__init__", <<>>, 0, FALSE, NoMatch)

NextRoute == FindAllStopsAlongRoute \/ MatchEmployeesToRoute

SpecRoute == InitRoute /\ [][NextRoute]_vars

-----------------------------------------------------------------------------
(* Stop discovery and employee matching: properties *)

TheRoute == clusters[1].route[1]

\* how often the stop st is in the list
Times(list, st) == Cardinality({k \in DOMAIN list : list[k] = st})

\* the stop is within the buffer of the call and passes its side filter
Qualifies(st) ==
    /\ in_buffer(TheRoute.coordinates, st, last.args.buffer_meters)
    /\ last.args.same_side_only => ~wrong_side(TheRoute.coordinates, st)

\* C19: find_all_stops_along_route returns the list it leaves in route.bus_stops;
\* on a route with a polyline the list holds exactly the stops of the inventory
\* that are nearer to the polyline than the buffer and, with side filtering, not on
\* the wrong side, in the order of their positions along the route; on a route with
\* fewer than two polyline points it is empty.
C19_DiscoveredStops ==
    last.op = "Route.find_all_stops_along_route" =>
        LET ret == last.ret[1]
            line == TheRoute.coordinates
        IN /\ ret = TheRoute.bus_stops
           /\ Len(line) < 2 => ret = <<>>
           /\ Len(line) >= 2 =>
                 /\ \A k \in DOMAIN safe_stops :
                       Times(ret, safe_stops[k]) =
                           IF Qualifies(safe_stops[k]) THEN Times(safe_stops, safe_stops[k]) ELSE 0
                 /\ \A k \in DOMAIN ret : Times(safe_stops, ret[k]) > 0
                 /\ \A k \in 1..(Len(ret) - 1) :
                       line_project(line, ret[k]) <= line_project(line, ret[k + 1])

\* C19, its case: of an inventory that lists the stop ahead first and has a stop on
\* the far side of the street, discovery with side filtering has stored the three
\* other stops in the order of the route.
C19_Witness ==
    /\ last.op = "Route.find_all_stops_along_route"
    /\ last.args.same_side_only
    /\ safe_stops = <<StopAhead, StopNorth, StopOnLine, StopSouth>>
    /\ TheRoute.bus_stops = <<StopSouth, StopOnLine, StopAhead>>
    /\ last.ret[1] = TheRoute.bus_stops

\* the route is a straight line along a latitude
IsStraight(line) == Len(line) >= 2 /\ \A k \in DOMAIN line : line[k][1] = line[1][1]

\* the mirror image of the stop st on the other side of the straight line
Mirror(line, st) == <<2 * line[1][1] - st[1], st[2]>>

\* the list holds the stop
Holds(list, st) == \E k \in DOMAIN list : list[k] = st

\* C13: on a straight route, of two stops of the inventory that are mirror images of
\* each other and within the buffer, discovery with side filtering returns exactly
\* one and the candidates of matching hold exactly one, the one on the right of the
\* direction of travel; a stop on the line within the buffer is in both.
C13_SideOfTravel ==
    LET line == TheRoute.coordinates
        filtering == \/ /\ last.op = "Route.find_all_stops_along_route"
                        /\ last.args.same_side_only
                     \/ last.op = "Route.match_employees_to_route"
        kept == IF last.op = "Route.find_all_stops_along_route" THEN last.ret[1]
                ELSE last.candidates
    IN (filtering /\ IsStraight(line)) =>
          \A k \in DOMAIN safe_stops :
             LET st == safe_stops[k] IN
                in_buffer(line, st, last.args.buffer_meters) =>
                   /\ (st[1] = line[1][1]) => Holds(kept, st)
                   /\ (st[1] # line[1][1] /\ Holds(safe_stops, Mirror(line, st))) =>
                         /\ Holds(kept, st) # Holds(kept, Mirror(line, st))
                         /\ Holds(kept, st) = (st[1] < line[1][1])

\* C13, its case: both mirrored stops and the stop on the line were in the two
\* buffers; discovery has stored, and matching has taken as candidates, the stop on
\* the near side and the stop on the line, and not the stop on the far side.
C13_Witness ==
    /\ last.op = "Route.match_employees_to_route"
    /\ IsStraight(TheRoute.coordinates)
    /\ Holds(safe_stops, StopNorth) /\ Holds(safe_stops, StopSouth)
    /\ Holds(safe_stops, StopOnLine)
    /\ Holds(TheRoute.bus_stops, StopSouth) /\ ~Holds(TheRoute.bus_stops, StopNorth)
    /\ Holds(TheRoute.bus_stops, StopOnLine)
    /\ Holds(last.candidates, StopSouth) /\ ~Holds(last.candidates, StopNorth)
    /\ Holds(last.candidates, StopOnLine)

\* the members of the cluster that are not excluded, in the order of the list
ActiveMembers == get_active_employees(clusters[1], employees)

\* the candidate j has the least distance of the row
LeastOfRow(row, j) ==
    /\ row[j] # None
    /\ \A k \in DOMAIN row : row[k] # None => row[j] <= row[k]

\* C11: when the matrix query has returned a matrix, match_employees_to_route has
\* given every active employee the candidate stop with the least distance of the
\* employee's row, absent entries left out, the first one of several, with that
\* distance as walking distance; a second run with the same matrix leaves the
\* assignment as it is.
C11_MatrixArgmin ==
    [][(last'.op = "Route.match_employees_to_route" /\ last'.matrix # <<>>) =>
          LET matrix == last'.matrix[1]
              active == ActiveMembers
          IN /\ \A i \in DOMAIN active :
                   \E j \in DOMAIN last'.candidates :
                      /\ LeastOfRow(matrix[i], j)
                      /\ \A k \in 1..(j - 1) : ~LeastOfRow(matrix[i], k)
                      /\ employees'[active[i]].pickup_point = last'.candidates[j]
                      /\ employees'[active[i]].walking_distance = matrix[i][j]
             /\ (last.op = "Route.match_employees_to_route" /\ last.matrix = last'.matrix)
                   => employees' = employees]_vars

\* the stops that pass the buffer and the side filter of matching
SideFiltered(buffer_meters) ==
    {st \in {TheRoute.stops[k] : k \in DOMAIN TheRoute.stops}
              \cup {safe_stops[k] : k \in {n \in DOMAIN safe_stops :
                        in_buffer(TheRoute.coordinates, safe_stops[n], buffer_meters)}} :
        ~wrong_side(TheRoute.coordinates, st)}

\* C12: when the matrix query was made and returned None, match_employees_to_route
\* has not raised, has counted every active employee and has given each the pickup
\* point of a stop that passes the side filter and to which the straight line is
\* shortest among those stops; an excluded employee is left as it was.
C12_NearestPointFallback ==
    [][(last'.op = "Route.match_employees_to_route" /\ last'.requested /\ last'.matrix = <<>>) =>
          /\ ~last'.raised
          /\ last'.ret[1] = Len(ActiveMembers)
          /\ \A n \in DOMAIN employees :
                IF employees[n].excluded
                THEN employees'[n] = employees[n]
                ELSE LET home == <<employees[n].lat, employees[n].lon>>
                         filtered == SideFiltered(last'.args.buffer_meters)
                     IN /\ employees'[n].pickup_point \in filtered
                        /\ \A st \in filtered :
                              Dist2(home, employees'[n].pickup_point) <= Dist2(home, st)]_vars

\* C12, its case: the query failed; the employee north of the street, whose nearest
\* stop is the one on the far side, got the stop on the line, and the excluded
\* employee got none.
C12_Witness ==
    /\ last.op = "Route.match_employees_to_route"
    /\ last.requested /\ last.matrix = <<>>
    /\ Holds(safe_stops, StopNorth)
    /\ Len(employees) = 2
    /\ employees[1].excluded /\ employees[1].pickup_point = NoPoint
    /\ <<employees[2].lat, employees[2].lon>> = <<7, 3>>
    /\ employees[2].pickup_point = StopOnLine
    /\ last.ret = <<1>>

-----------------------------------------------------------------------------
(* services.py: ServicePlanner.reassign_employees_to_closer_routes *)

MAX_WALK_DISTANCE == 500

\* lines 1008-1014: the stops of every route, in cluster order, each with the id of
\* its cluster and the cluster itself (its place in the list)
RECURSIVE all_route_stops(_, _)
all_route_stops(cls, k) ==
    IF k > Len(cls) THEN <<>>
    ELSE LET stops == IF cls[k].route = <<>> THEN <<>> ELSE cls[k].route[1].stops
         IN [j \in DOMAIN stops |->
                [lat |-> stops[j][1], lon |-> stops[j][2],
                 cluster_id |-> cls[k].id, cluster |-> k]]
            \o all_route_stops(cls, k + 1)

\* lines 1033-1038
current_walk_distance(e) ==
    IF e.walking_distance = None
    THEN haversine(e.lat, e.lon, e.pickup_point[1], e.pickup_point[2])
    ELSE e.walking_distance

\* lines 1047-1058: the loop over the snapshot, from stop j on
RECURSIVE FindBest(_, _, _, _)
FindBest(e, stops, j, best) ==
    IF j > Len(stops) THEN best
    ELSE LET dist == haversine(e.lat, e.lon, stops[j].lat, stops[j].lon)
         IN IF dist < best.best_distance
            THEN FindBest(e, stops, j + 1,
                          [best_distance |-> dist,
                           best_stop |-> <<stops[j].lat, stops[j].lon>>,
                           best_cluster |-> <<stops[j].cluster>>])
            ELSE FindBest(e, stops, j + 1, best)

\* line 1063 with <= in the place of <
AcceptableInclusive(best_distance, current, max_walk) ==
    best_distance <= max_walk \/ 10 * best_distance <= 7 * current

\* line 1063: best_distance <= max_walk or best_distance < current_walk_distance * 0.7
Acceptable(best_distance, current, max_walk) ==
    best_distance <= max_walk \/ 10 * best_distance < 7 * current

\* lines 1028-1072 for one employee of cluster k: [checked, move]
ScanEmployee(cls, emps, k, i, stops, max_walk) ==
    LET e == emps[i]
        current == current_walk_distance(e)
        best == FindBest(e, stops, 1,
                         [best_distance |-> current, best_stop |-> <<>>, best_cluster |-> <<>>])
    IN IF e.pickup_point = NoPoint THEN [checked |-> 0, move |-> <<>>]
       ELSE IF current <= max_walk THEN [checked |-> 0, move |-> <<>>]
       ELSE IF /\ best.best_stop # <<>>
               /\ cls[best.best_cluster[1]].id # cls[k].id
               /\ Acceptable(best.best_distance, current, max_walk)
       THEN [checked |-> 1,
             move |-> <<[employee |-> i, new_cluster |-> best.best_cluster[1],
                         new_stop |-> best.best_stop, new_distance |-> best.best_distance]>>]
       ELSE [checked |-> 1, move |-> <<>>]

\* lines 1025-1072: the scan of cluster k, from its n-th active employee on
RECURSIVE ScanCluster(_, _, _, _, _, _)
ScanCluster(cls, emps, k, n, stops, max_walk) ==
    LET active == get_active_employees(cls[k], emps)
    IN IF n > Len(active) THEN [checked |-> 0, employees_to_remove |-> <<>>]
       ELSE LET one == ScanEmployee(cls, emps, k, active[n], stops, max_walk)
                rest == ScanCluster(cls, emps, k, n + 1, stops, max_walk)
            IN [checked |-> one.checked + rest.checked,
                employees_to_remove |-> one.move \o rest.employees_to_remove]

\* list.remove(x): without the first occurrence of x
RECURSIVE Remove(_, _)
Remove(seq, x) ==
    IF seq = <<>> THEN <<>>
    ELSE IF Head(seq) = x THEN Tail(seq)
    ELSE <<Head(seq)>> \o Remove(Tail(seq), x)

\* the moves applied without taking the employee off the cluster it leaves
RECURSIVE ApplyMovesKeepingSource(_, _, _, _)
ApplyMovesKeepingSource(cls, emps, k, moves) ==
    IF moves = <<>> THEN [clusters |-> cls, employees |-> emps]
    ELSE LET mv == Head(moves)
             added == [cls EXCEPT ![mv.new_cluster].employees = Append(@, mv.employee)]
             moved == [emps EXCEPT ![mv.employee].cluster_id = cls[mv.new_cluster].id,
                                   ![mv.employee].pickup_point = mv.new_stop,
                                   ![mv.employee].walking_distance = mv.new_distance]
         IN ApplyMovesKeepingSource(added, moved, k, Tail(moves))

\* lines 1074-1089: the moves of cluster k, applied in order
RECURSIVE ApplyMoves(_, _, _, _)
ApplyMoves(cls, emps, k, moves) ==
    IF moves = <<>> THEN [clusters |-> cls, employees |-> emps]
    ELSE LET mv == Head(moves)
             removed == [cls EXCEPT ![k].employees = Remove(@, mv.employee)]
             added == [removed EXCEPT ![mv.new_cluster].employees = Append(@, mv.employee)]
             moved == [emps EXCEPT ![mv.employee].cluster_id = cls[mv.new_cluster].id,
                                   ![mv.employee].pickup_point = mv.new_stop,
                                   ![mv.employee].walking_distance = mv.new_distance]
         IN ApplyMoves(added, moved, k, Tail(moves))

\* one round of the loop over the clusters: scan cluster k, then apply its moves
ReassignCluster(cls, emps, k, stops, max_walk) ==
    LET scan == ScanCluster(cls, emps, k, 1, stops, max_walk)
        applied == ApplyMoves(cls, emps, k, scan.employees_to_remove)
    IN [clusters |-> applied.clusters, employees |-> applied.employees,
        checked |-> scan.checked, reassigned |-> Len(scan.employees_to_remove)]

\* the whole call on a cluster list: the rounds from cluster k on
RECURSIVE ReassignFrom(_, _, _, _, _, _, _)
ReassignFrom(cls, emps, k, stops, max_walk, reassigned, checked) ==
    IF k > Len(cls)
    THEN [clusters |-> cls, employees |-> emps, reassigned |-> reassigned, checked |-> checked]
    ELSE LET r == ReassignCluster(cls, emps, k, stops, max_walk)
         IN ReassignFrom(r.clusters, r.employees, k + 1, stops, max_walk,
                         reassigned + r.reassigned, checked + r.checked)

reassign_employees_to_closer_routes(cls, emps, max_walk) ==
    LET stops == all_route_stops(cls, 1)
    IN IF stops = <<>>
       THEN [clusters |-> cls, employees |-> emps, reassigned |-> 0, checked |-> 0]
       ELSE ReassignFrom(cls, emps, 1, stops, max_walk, 0, 0)

-----------------------------------------------------------------------------
(* The reassignment pass: actions and inputs.  The call is followed round   *)
(* by round: the snapshot, one round of the loop for each cluster, the      *)
(* return.                                                                  *)

ReassignOp == "ServicePlanner.reassign_employees_to_closer_routes"

ReassignSnapshot ==
    /\ reassigner.pc = "idle"
    /\ LET stops == all_route_stops(clusters, 1)
           started == [pc |-> "scan", all_route_stops |-> stops, i |-> 1,
                       reassigned_count |-> 0, checked_count |-> 0,
                       before |-> [clusters |-> clusters, employees |-> employees]]
       IN IF stops = <<>>
          THEN /\ reassigner' = [started EXCEPT !.pc = "done"]
               /\ last' = Returned(ReassignOp, <<[reassigned |-> 0, checked |-> 0]>>)
          ELSE /\ reassigner' = started
               /\ UNCHANGED last
    /\ UNCHANGED <<safe_stops, employees, zoneVars, clusterVars, routerVars>>

ReassignRound ==
    /\ reassigner.pc = "scan"
    /\ reassigner.i <= Len(clusters)
    /\ LET r == ReassignCluster(clusters, employees, reassigner.i,
                                reassigner.all_route_stops, MAX_WALK_DISTANCE)
       IN /\ clusters' = r.clusters
          /\ employees' = r.employees
          /\ reassigner' = [reassigner EXCEPT !.i = @ + 1,
                                              !.reassigned_count = @ + r.reassigned,
                                              !.checked_count = @ + r.checked]
    /\ UNCHANGED <<safe_stops, zoneVars, capacity, routerVars, last>>

ReassignReturn ==
    /\ reassigner.pc = "scan"
    /\ reassigner.i > Len(clusters)
    /\ reassigner' = [reassigner EXCEPT !.pc = "done"]
    /\ last' = Returned(ReassignOp, <<[reassigned |-> reassigner.reassigned_count,
                                       checked |-> reassigner.checked_count]>>)
    /\ UNCHANGED <<safe_stops, employees, zoneVars, clusterVars, routerVars>>

\* the employees live at Home; a pickup point is a bus stop east of it, and each
\* route has one stop of its own and ends at the office
Home == <<0, 0>>
OFFICE_LOCATION == <<0, 200>>
PickupLons == {40, 60, 80, 100}
StopLons == {30, 55, 70}

\* what matching left on an employee: no pickup point, or a pickup point with the
\* walking distance recorded (matrix path) or not (straight-line path)
Walkers ==
    {[pickup_point |-> NoPoint, walking_distance |-> None, excluded |-> FALSE]}
    \cup {[pickup_point |-> <<0, x>>, walking_distance |-> MetresPerUnit * x,
           excluded |-> FALSE] : x \in PickupLons}
    \cup {[pickup_point |-> <<0, Max(PickupLons)>>, walking_distance |-> None,
           excluded |-> b] : b \in BOOLEAN}

RouteChoices == {<<>>} \cup {<<Route(<<<<0, x>>, OFFICE_LOCATION>>)>> : x \in StopLons}

InitReassign ==
    /\ \E walkers \in SeqsUpTo(Walkers \X {0, 1}, MaxWalkers) :
       \E routes \in RouteChoices \X RouteChoices :
       \E zones \in {<<None, None>>, <<1, 2>>} :
          /\ employees = [i \in DOMAIN walkers |->
                            [Employee(i, Home[1], Home[2])
                                EXCEPT !.cluster_id = walkers[i][2],
                                       !.zone_id = zones[walkers[i][2] + 1],
                                       !.excluded = walkers[i][1].excluded,
                                       !.pickup_point = walkers[i][1].pickup_point,
                                       !.walking_distance = walkers[i][1].walking_distance]]
          /\ clusters = [k \in 1..2 |->
                            [Cluster(k - 1, Center(Home[1], Home[2], 1))
                                EXCEPT !.zone_id = zones[k],
                                       !.employees =
                                           IdxList({i \in DOMAIN walkers : walkers[i][2] = k - 1}),
                                       !.route = routes[k]]]
    /\ capacity \in {1, VEHICLE_CAPACITY}
    /\ NoZones
    /\ NoRouter
    /\ NoReassigner
    /\ NoStops
    /\ last = [op |-> "matched", raised |-> FALSE, ret |-> <<>>]

NextReassign == ReassignSnapshot \/ ReassignRound \/ ReassignReturn

SpecReassign == InitReassign /\ [][NextReassign]_vars

-----------------------------------------------------------------------------
(* The reassignment pass: properties *)

\* a round of the loop: the step that scans cluster reassigner.i and applies its moves
RoundStep == reassigner.pc = "scan" /\ reassigner'.pc = "scan" /\ reassigner'.i = reassigner.i + 1

IsMember(cls, k, i) == \E n \in DOMAIN cls[k].employees : cls[k].employees[n] = i

StopDistance(e, stop) == haversine(e.lat, e.lon, stop.lat, stop.lon)

\* the nearest stop of the snapshot, the first-listed one among equally near stops
NearestStop(e, stops) ==
    CHOOSE j \in DOMAIN stops :
        /\ \A m \in DOMAIN stops : StopDistance(e, stops[j]) <= StopDistance(e, stops[m])
        /\ \A m \in 1..(j - 1) : StopDistance(e, stops[m]) > StopDistance(e, stops[j])

RecordedWalk(e) ==
    IF e.walking_distance # None THEN e.walking_distance
    ELSE haversine(e.lat, e.lon, e.pickup_point[1], e.pickup_point[2])

\* In a round, an employee is moved exactly when it is an active member of the
\* scanned cluster with a pickup point, its walking distance d_cur is above
\* MAX_WALK_DISTANCE, the nearest snapshot stop is of another cluster, and the
\* distance d_new to that stop is within MAX_WALK_DISTANCE or below 70% of d_cur
\* (at most 70% when `inclusive`); a moved employee gets that cluster, stop and
\* distance, and nothing else changes.
MoveRule(inclusive) ==
    RoundStep =>
        LET k == reassigner.i
            stops == reassigner.all_route_stops
        IN \A i \in DOMAIN employees :
              LET e == employees[i]
                  j == NearestStop(e, stops)
                  d_new == StopDistance(e, stops[j])
                  examined == /\ IsMember(clusters, k, i)
                              /\ ~e.excluded
                              /\ e.pickup_point # NoPoint
                              /\ RecordedWalk(e) > MAX_WALK_DISTANCE
                  better == \/ d_new <= MAX_WALK_DISTANCE
                            \/ 10 * d_new < 7 * RecordedWalk(e)
                            \/ inclusive /\ 10 * d_new = 7 * RecordedWalk(e)
              IN IF examined /\ stops[j].cluster_id # clusters[k].id /\ better
                 THEN /\ employees'[i] =
                            [e EXCEPT !.cluster_id = stops[j].cluster_id,
                                      !.pickup_point = <<stops[j].lat, stops[j].lon>>,
                                      !.walking_distance = d_new]
                      /\ ~IsMember(clusters', k, i)
                      /\ IsMember(clusters', stops[j].cluster, i)
                 ELSE /\ employees'[i] = e
                      /\ \A c \in DOMAIN clusters :
                            IsMember(clusters', c, i) <=> IsMember(clusters, c, i)

\* C8 (as the code has it): the move rule with the 70% boundary excluded: an
\* employee over the maximum is moved iff the nearest snapshot stop is of another
\* cluster and d_new <= MAX_WALK_DISTANCE or d_new < 0.7 * d_cur; an employee with
\* d_cur <= MAX_WALK_DISTANCE is never moved.
C8_MovedIffStrictlyBetter == [][MoveRule(FALSE)]_vars

\* C8 (as stated): the move rule with the 70% boundary included, d_new <= 0.7 * d_cur.
C8_MovedIffAtMost70 == [][MoveRule(TRUE)]_vars

\* C8, its case: the pass has examined an employee 1000 m from its pickup point
\* whose nearest snapshot stop, 700 m away, is of another cluster, and has not
\* moved it.
C8_Witness ==
    /\ reassigner.pc = "done"
    /\ reassigner.checked_count > 0
    /\ \E i \in DOMAIN employees :
          LET e == reassigner.before.employees[i]
              stop == reassigner.all_route_stops[NearestStop(e, reassigner.all_route_stops)]
          IN /\ ~e.excluded
             /\ e.walking_distance = 1000
             /\ StopDistance(e, stop) = 700
             /\ stop.cluster_id # e.cluster_id
             /\ employees[i] = e

\* C9: as long as a cluster is still to be scanned, no step of the pass changes a
\* member list or an employee's cluster and pickup fields.
C9_MovesAfterWholeScan ==
    [][(reassigner.pc = "scan" /\ reassigner.i < Len(clusters))
        => (/\ employees' = employees
            /\ \A k \in DOMAIN clusters : clusters'[k].employees = clusters[k].employees)]_vars

Reorderings(seq) ==
    {[i \in DOMAIN seq |-> seq[f[i]]] :
        f \in {g \in [DOMAIN seq -> DOMAIN seq] : \A a, b \in DOMAIN seq : a # b => g[a] # g[b]}}

Outcome(emps, reassigned, checked) ==
    [employees |-> [i \in DOMAIN emps |->
                       [cluster_id |-> emps[i].cluster_id, pickup_point |-> emps[i].pickup_point,
                        walking_distance |-> emps[i].walking_distance]],
     reassigned |-> reassigned, checked |-> checked]

\* C10: when the pass has returned, its outcome (every employee's cluster, pickup
\* point and walking distance, and the two counts) is the outcome of the pass on
\* every reordering of the cluster list it started from.
C10_OrderIndependent ==
    reassigner.pc = "done" =>
        \A cls \in Reorderings(reassigner.before.clusters) :
            LET r == reassign_employees_to_closer_routes(cls, reassigner.before.employees,
                                                         MAX_WALK_DISTANCE)
            IN Outcome(r.employees, r.reassigned, r.checked)
               = Outcome(employees, last.ret[1].reassigned, last.ret[1].checked)

-----------------------------------------------------------------------------
(* The optimized flag, and the reassignment pass at the end of the pipeline *)

\* C23: the route that optimize_cluster_route returns has optimized true when its
\* polyline, distance and duration are those of a route the service answered (now or
\* for the cache), and false when they are the haversine fallback.
C23_OptimizedIffLive ==
    (last.op = "RoutingService.optimize_cluster_route" /\ last.ret # <<>>)
        => (last.ret[1].optimized <=> last.ret[1].coordinates # <<>>)

\* C25: when every cluster had at most `capacity` active members as the pass
\* started, every cluster has at most `capacity` active members when it has returned.
C25_CapacitySurvivesReassignment ==
    (reassigner.pc = "done" /\ WithinCapacity(reassigner.before.clusters))
        => WithinCapacity(clusters)

\* C27: a round examines (counts as checked) only employees that were members of
\* the scanned cluster when the pass started, and the count the pass returns is
\* the number of active employees that then had a pickup point and a walking
\* distance above MAX_WALK_DISTANCE.
C27_ExaminedOnce ==
    [][/\ RoundStep =>
             \A i \in DOMAIN employees :
                (/\ IsMember(clusters, reassigner.i, i)
                 /\ ~employees[i].excluded
                 /\ employees[i].pickup_point # NoPoint
                 /\ RecordedWalk(employees[i]) > MAX_WALK_DISTANCE)
                    => IsMember(reassigner.before.clusters, reassigner.i, i)
       /\ (reassigner.pc = "scan" /\ reassigner'.pc = "done") =>
             last'.ret[1].checked =
                Cardinality({i \in DOMAIN employees :
                                LET e == reassigner.before.employees[i]
                                IN /\ ~e.excluded
                                   /\ e.pickup_point # NoPoint
                                   /\ RecordedWalk(e) > MAX_WALK_DISTANCE})]_vars

\* C28: a round moves no employee whose own cluster's route has a stop as near as
\* the stop the employee is moved to.
C28_NoMoveOnTie ==
    [][RoundStep =>
          \A i \in DOMAIN employees :
             (IsMember(clusters, reassigner.i, i) /\ ~IsMember(clusters', reassigner.i, i)) =>
                \A j \in DOMAIN reassigner.all_route_stops :
                   LET stop == reassigner.all_route_stops[j]
                   IN stop.cluster = reassigner.i =>
                         StopDistance(employees[i], stop) # employees'[i].walking_distance]_vars


-----------------------------------------------------------------------------
(* The clusters that create_clusters hands on *)

\* C29: when create_clusters has returned and the waypoint service answered every
\* request with a match, every cluster of the resulting list, the parts of a split
\* cluster included, has been snapped: it carries the center it had before as
\* original_center.
C29_EveryClusterSnapped ==
    (/\ last.op = "ServicePlanner.create_clusters"
     /\ ~last.raised
     /\ \A j \in DOMAIN last.outcomes : last.outcomes[j] = "ok")
        => \A i \in DOMAIN clusters : clusters[i].original_center # <<>>


-----------------------------------------------------------------------------
(* The pickup fields of an employee *)

\* C30: at every point an employee that has a pickup_point has a recorded
\* walking_distance, and an excluded employee has no pickup point.
C30_PickupFieldsTogether ==
    \A n \in DOMAIN employees :
        /\ employees[n].pickup_point # NoPoint => employees[n].walking_distance # None
        /\ employees[n].excluded => employees[n].pickup_point = NoPoint


\* C26: in zone-aware mode every member of a cluster has the zone_id of the cluster,
\* at every point after cluster_by_zones, the reassignment pass included.
C26_ZonePurity ==
    \A k \in DOMAIN clusters :
        clusters[k].zone_id # None =>
            \A n \in DOMAIN clusters[k].employees :
                employees[clusters[k].employees[n]].zone_id = clusters[k].zone_id


-----------------------------------------------------------------------------
(* The cache file and the map of the planner's routing client *)

\* C22: after any sequence of route and matrix calls the cache file holds exactly
\* the in-memory map of the routing client.
C22_FileIsTheMap == disk = cache


-----------------------------------------------------------------------------
(* services.py: ServicePlanner.run on the flat path (no zone assignments):   *)
(* create_clusters, generate_stops, the two loops of optimize_routes, the    *)
(* rounds of the reassignment pass and assign_vehicles.  `last` holds the    *)
(* position in the pipeline: the phase, the cluster the loop is at, the      *)
(* clusters that were matched and the number of reassignment passes made.    *)

MaxRunEmployees == 3

MIN_EMPLOYEES_FOR_SHUTTLE == 1

\* a pipeline that makes the reassignment pass before the matching loop
PipelineReassignEarly ==
    <<"create_clusters", "generate_stops", "build", "reassign", "match", "assign_vehicles">>

\* run, lines 1387-1393, with the loops of optimize_routes (lines 972-990) as
\* phases of their own
Pipeline == <<"create_clusters", "generate_stops", "build", "match", "reassign", "assign_vehicles">>

Phase == IF last.phase \in DOMAIN Pipeline /\ ~last.raised THEN Pipeline[last.phase] ELSE "over"

\* the position after this step: the next cluster of a loop, or the next phase
RunNext(op, ret, matched, passes) ==
    LET again == Phase \in {"build", "match", "reassign"} /\ last.k < Len(clusters)
    IN [op |-> op, raised |-> FALSE, ret |-> ret,
        phase |-> IF again THEN last.phase ELSE last.phase + 1,
        k |-> IF again THEN last.k + 1 ELSE 1,
        matched |-> matched, passes |-> passes]

\* ServicePlanner.generate_stops: farthest active member, center, office
generate_stops(cls, emps) ==
    [k \in DOMAIN cls |->
        LET active == get_active_employees(cls[k], emps)
            away(n) == haversine(emps[active[n]].lat, emps[active[n]].lon,
                                 OFFICE_LOCATION[1], OFFICE_LOCATION[2])
            first == Min({n \in DOMAIN active : \A m \in DOMAIN active : away(n) >= away(m)})
            farthest == emps[active[first]]
            c == cls[k].center
        IN IF active = <<>> THEN cls[k]
           ELSE [cls[k] EXCEPT !.stops = <<<<farthest.lat, farthest.lon>>,
                                           <<c.lat \div c.den, c.lon \div c.den>>,
                                           OFFICE_LOCATION>>]]

RunCreateClusters ==
    /\ Phase = "create_clusters"
    /\ \E num_clusters \in NumClusters :
       \E outcomes \in [1..num_clusters -> Outcomes] :
       \E r \in create_clusters(employees, num_clusters, capacity, outcomes) :
          /\ clusters' = r.clusters
          /\ employees' = r.employees
          /\ requests' = requests \o r.requests
          /\ last' = [RunNext("ServicePlanner.create_clusters", <<>>, {}, 0)
                         EXCEPT !.raised = r.raised]
    /\ UNCHANGED <<safe_stops, zoneVars, capacity, cache, disk, succeeded, stored_by, reassigner>>

RunGenerateStops ==
    /\ Phase = "generate_stops"
    /\ clusters' = generate_stops(clusters, employees)
    /\ last' = RunNext("ServicePlanner.generate_stops", <<>>, {}, 0)
    /\ UNCHANGED <<safe_stops, employees, zoneVars, capacity, routerVars, reassigner>>

\* optimize_routes, lines 972-978: the first loop at cluster last.k
RunBuildRoute ==
    /\ Phase = "build"
    /\ LET k == last.k
       IN IF get_employee_count(clusters[k], employees, FALSE) < MIN_EMPLOYEES_FOR_SHUTTLE
          THEN /\ last' = RunNext("ServicePlanner.optimize_routes", <<>>, {}, 0)
               /\ UNCHANGED <<clusters, cache, disk, requests>>
          ELSE \E outcome \in Outcomes :
                  LET r == RoutingService_optimize_cluster_route(cache, disk, clusters[k],
                                                                 employees, TRUE, outcome)
                  IN /\ clusters' = IF r.ret = <<>> THEN clusters
                                    ELSE [clusters EXCEPT ![k].route = r.ret]
                     /\ cache' = IF r.called THEN r.got.cache ELSE cache
                     /\ disk' = IF r.called THEN r.got.disk ELSE disk
                     /\ requests' = IF r.called THEN requests \o r.got.request ELSE requests
                     /\ last' = RunNext("RoutingService.optimize_cluster_route", <<>>, {}, 0)
    /\ UNCHANGED <<safe_stops, employees, zoneVars, capacity, succeeded, stored_by, reassigner>>

\* optimize_routes, lines 984-990: the second loop at cluster last.k
RunMatchCluster ==
    /\ Phase = "match"
    /\ LET k == last.k
       IN IF clusters[k].route = <<>>
          THEN /\ last' = RunNext("ServicePlanner.optimize_routes", <<>>, last.matched, 0)
               /\ UNCHANGED <<clusters, employees, disk, requests>>
          ELSE \E found \in {find_all_stops_along_route(clusters[k].route[1], safe_stops,
                                                         BUS_STOP_DISCOVERY_BUFFER_METERS,
                                                         TRUE).route} :
               \E outcome \in Outcomes :
               \E far \in IF outcome = "ok"
                          THEN {{}, {found.stops[j] : j \in DOMAIN found.stops}}
                          ELSE {{}} :
               \E r \in match_employees_to_route(found, employees, clusters[k].employees,
                                                 safe_stops, ROUTE_STOP_BUFFER_METERS, disk,
                                                 outcome, [cut |-> {}, far |-> far]) :
                  /\ clusters' = [clusters EXCEPT ![k].route = <<found>>]
                  /\ employees' = r.employees
                  /\ disk' = r.disk
                  /\ requests' = requests \o r.request
                  /\ last' = RunNext("Route.match_employees_to_route", <<r.ret>>,
                                     last.matched \cup {k}, 0)
    /\ UNCHANGED <<safe_stops, zoneVars, capacity, cache, succeeded, stored_by, reassigner>>

\* reassign_employees_to_closer_routes: the snapshot of the stops is taken before
\* the first round; a round scans cluster last.k and applies its moves
RunReassign ==
    /\ Phase = "reassign"
    /\ LET stops == IF last.k = 1 THEN all_route_stops(clusters, 1)
                    ELSE reassigner.all_route_stops
       IN IF stops = <<>>
          THEN /\ last' = [RunNext(ReassignOp, <<0>>, last.matched, last.passes + 1)
                              EXCEPT !.phase = last.phase + 1, !.k = 1]
               /\ UNCHANGED <<clusters, employees, reassigner>>
          ELSE \E r \in {ReassignCluster(clusters, employees, last.k, stops, MAX_WALK_DISTANCE)} :
                  /\ clusters' = r.clusters
                  /\ employees' = r.employees
                  /\ reassigner' = [pc |-> "scan", all_route_stops |-> stops]
                  /\ last' = RunNext(ReassignOp, <<r.reassigned>>, last.matched,
                                     IF last.k < Len(clusters) THEN last.passes
                                     ELSE last.passes + 1)
    /\ UNCHANGED <<safe_stops, zoneVars, capacity, routerVars>>

RunAssignVehicles ==
    /\ Phase = "assign_vehicles"
    /\ last' = RunNext("ServicePlanner.assign_vehicles", <<>>, last.matched, last.passes)
    /\ UNCHANGED <<safe_stops, employees, zoneVars, clusterVars, routerVars, reassigner>>

InitRun ==
    /\ \E homes \in {p \in SeqsUpTo({<<0, 0>>, <<0, 130>>, <<0, 180>>}, MaxRunEmployees) : InOrder(p)} :
          employees = [i \in DOMAIN homes |-> Employee(i, homes[i][1], homes[i][2])]
    /\ clusters = <<>>
    /\ capacity \in {1, VEHICLE_CAPACITY}
    /\ safe_stops \in {<<>>, <<<<0, 100>>>>}
    /\ NoZones
    /\ NoRouter
    /\ NoReassigner
    /\ last = [op |-> "ServicePlanner.run", raised |-> FALSE, ret |-> <<>>, phase |-> 1,
               k |-> 1, matched |-> {}, passes |-> 0]

NextRun ==
    \/ RunCreateClusters \/ RunGenerateStops \/ RunBuildRoute \/ RunMatchCluster
    \/ RunReassign \/ RunAssignVehicles

SpecRun == InitRun /\ [][NextRun]_vars


-----------------------------------------------------------------------------
(* ServicePlanner.run: properties *)

\* C21: in a run, a cluster is matched only when its route has been built and
\* assigned, so a cluster without a route is never matched; the reassignment pass
\* is made when no pass has been made, every cluster with enough active members has
\* its route and every cluster with a route has been matched; and a run that
\* returns has made exactly one pass.
C21_PipelineOrder ==
    [][LET routed == {k \in DOMAIN clusters : clusters[k].route # <<>>}
       IN /\ \A k \in last'.matched \ last.matched : k \in routed
          /\ last'.op = ReassignOp =>
                /\ last.passes = 0
                /\ last.matched = routed
                /\ \A k \in DOMAIN clusters :
                      get_employee_count(clusters[k], employees, FALSE)
                          >= MIN_EMPLOYEES_FOR_SHUTTLE => k \in routed
          /\ last'.op = "ServicePlanner.assign_vehicles" => last'.passes = 1]_vars

\* C21, its case: a run has returned after one pass; of its two clusters one had
\* no member and got no route and no matching, the other was matched and its
\* member has a pickup point.
C21_Witness ==
    /\ last.op = "ServicePlanner.assign_vehicles"
    /\ last.passes = 1
    /\ Len(clusters) = 2
    /\ \E k, j \in DOMAIN clusters :
          /\ clusters[j].route = <<>> /\ j \notin last.matched
          /\ k \in last.matched
          /\ \E n \in DOMAIN clusters[k].employees :
                employees[clusters[k].employees[n]].pickup_point # NoPoint

=============================================================================
